---- MODULE Spec2Model ----
(***************************************************************************)
(* A model of the PDF viewer control (PdfViewerControl/components/         *)
(* PdfViewer.tsx, services/PdfService.ts, index.ts): the PdfCanvas render  *)
(* scheduler, the visibility tracker, the virtual window, programmatic     *)
(* navigation, the document load, the search, the thumbnail panel and the  *)
(* control's outputs.  All callbacks run on one UI thread; an action is    *)
(* one callback, or the part of an async function between two awaits.      *)
(***************************************************************************)
EXTENDS Integers, Sequences, FiniteSets, TLC

(***************************************************************************)
(* Bounds of the model                                                     *)
(***************************************************************************)
\* pages of the small document (at most VIRTUAL_SCROLL_THRESHOLD)
SmallDocPages == 1
\* renderPage invocations that may be in flight at once
MaxRenders == 2
\* pages of the large document (more than VIRTUAL_SCROLL_THRESHOLD)
LargeDocPages == 31
\* entries of visiblePagesRef
MaxVisible == 2
\* distance from the current page of the pages that signal visibility
VisibleReach == 1
\* animation frames and settle timers of the pending-scroll effect that may
\* be outstanding at once
MaxNavInFlight == 2
\* loadDocument calls
MaxLoads == 3
\* pages of the document the search runs on
TextDocPages == 2
\* runs of ThumbnailPanel's render effect that may be unfinished at once
MaxThumbRuns == 2
\* pages of the document shown with the sidebar (more than
\* THUMBNAIL_PREFETCH_BEFORE + 1, so that from the last page a thumbnail is
\* left to the second batch)
ThumbDocPages == 5

(***************************************************************************)
(* CONFIG (PdfViewer.tsx 11-35).  Scales are in percent.                   *)
(***************************************************************************)
DEFAULT_SCALE == 100
MIN_SCALE == 25
MAX_SCALE == 500
ZOOM_STEP == 125
THUMBNAIL_PREFETCH_BEFORE == 3
THUMBNAIL_PREFETCH_AFTER == 10
THUMBNAIL_MAX_PAGES == 30
RENDER_TASK_TIMEOUT_MS == 10000
VIRTUAL_SCROLL_BUFFER_BEFORE == 5
VIRTUAL_SCROLL_BUFFER_AFTER == 8
VIRTUAL_SCROLL_THRESHOLD == 30

Null == "null"
\* null where a page number is expected
NoPage == 0
\* searchDebounceRef.current without a timer id (null); timer ids are positive
NoTimer == 0

Max(a, b) == IF a >= b THEN a ELSE b
Min(a, b) == IF a <= b THEN a ELSE b

(***************************************************************************)
(* A JavaScript Map: a function whose domain is the set of keys.           *)
(***************************************************************************)
EmptyMap == [k \in {} |-> 0]
Has(m, k) == k \in DOMAIN m
MapSet(m, k, v) == [x \in (DOMAIN m) \cup {k} |-> IF x = k THEN v ELSE m[x]]
MapDel(m, k) == [x \in (DOMAIN m) \ {k} |-> m[x]]
MapDelAll(m, ks) == [x \in (DOMAIN m) \ ks |-> m[x]]
Values(m) == {m[k] : k \in DOMAIN m}

VARIABLES
    \* PdfViewer state (useState)
    viewerState, fileType, currentPage, totalPages, currentScale,
    currentRotation, pageViewports, renderedPages, textContent, documentKey,
    metadata, outline, errorMessage,
    \* PdfViewer refs
    isNavigatingRef, pendingScrollRef, loadIdRef,
    \* PdfCanvas refs
    renderTasksRef, renderTaskStartTimesRef, renderingPagesRef,
    visiblePagesRef, pageChangeDebounceRef, everRenderedRef,
    \* the renderPage invocations in flight
    renders,
    \* the requestAnimationFrame callbacks of the pending-scroll effect that
    \* have not run (each holds its targetPage), and the number of its
    \* 100 ms settle timers that have not fired
    animationFrames, settleTimers,
    \* the loadDocument invocations, and PdfService.document
    loads, pdfDocument,
    \* search state (useState), the debounce ref, and the 150 ms search
    \* timers that have been set and neither fired nor been cleared
    searchText, searchMatches, currentMatchIndex, showFindPanel,
    searchDebounceRef, searchTimers,
    \* PdfViewerControl (index.ts): the output values, and whether
    \* notifyOutputChanged has been called since the framework last called
    \* getOutputs
    _currentPage, _totalPages, _selectedColumn, outputChanged,
    \* the showSidebar property; ThumbnailPanel's state and refs, and the
    \* runs of its render effect that have not ended
    showSidebar, thumbnails, mountedRef, thumbnailTasksRef, idleCallbackRef,
    thumbRuns,
    \* ThumbnailPanel's visibleRange, the scrollTop of its container, and
    \* the ticking flag of its scroll handler
    visibleRange, thumbScrollTop, ticking,
    \* PdfService.pageCache, and the calls of PdfService's methods that were
    \* made from outside the viewer's own load and render paths
    pageCache, serviceCalls,
    \* the pages whose canvas in the DOM holds a finished raster, and the
    \* renderPage invocations whose canvas is no longer in the DOM
    canvasRaster, detachedRenders

renderVars == <<renderedPages, textContent, renderTasksRef,
                renderTaskStartTimesRef, renderingPagesRef, everRenderedRef,
                renders>>
visVars == <<visiblePagesRef, pageChangeDebounceRef>>
docVars == <<viewerState, fileType, totalPages, pageViewports, documentKey,
            metadata, outline>>
viewVars == <<currentScale, currentRotation>>
navVars == <<currentPage, isNavigatingRef, pendingScrollRef, animationFrames,
            settleTimers>>
loadVars == <<loadIdRef, loads, pdfDocument>>
searchVars == <<searchText, searchMatches, currentMatchIndex, showFindPanel,
               searchDebounceRef, searchTimers>>
hostVars == <<_currentPage, _totalPages, _selectedColumn, outputChanged>>
thumbVars == <<showSidebar, thumbnails, mountedRef, thumbnailTasksRef,
              idleCallbackRef, thumbRuns>>
thumbListVars == <<visibleRange, thumbScrollTop, ticking>>
serviceVars == <<pageCache, serviceCalls>>
canvasVars == <<canvasRaster, detachedRenders>>

vars == <<viewerState, fileType, currentPage, totalPages, currentScale,
          currentRotation, pageViewports, renderedPages, textContent,
          documentKey, renderTasksRef, renderTaskStartTimesRef,
          renderingPagesRef, visiblePagesRef, pageChangeDebounceRef,
          everRenderedRef, renders, metadata, outline, isNavigatingRef,
          pendingScrollRef, loadIdRef, animationFrames, settleTimers, loads,
          pdfDocument, searchText, searchMatches, currentMatchIndex,
          showFindPanel, searchDebounceRef, searchTimers, errorMessage,
          _currentPage, _totalPages, _selectedColumn, outputChanged,
          showSidebar, thumbnails, mountedRef, thumbnailTasksRef,
          idleCallbackRef, thumbRuns, visibleRange, thumbScrollTop,
          ticking, pageCache, serviceCalls, canvasRaster, detachedRenders>>

(***************************************************************************)
(* The control's outputs (index.ts).  The viewer reports its page and page *)
(* count in an effect of every render that changed them or was given a new *)
(* callback (PdfViewer.tsx 188-190), and the column at every loadDocument  *)
(* call (248).                                                             *)
(***************************************************************************)
\* index.ts 85 and 92: the conditions under which a report is stored
pageChanged(page, total) == _currentPage # page \/ _totalPages # total
columnChanged(columnName) == _selectedColumn # columnName

\* an onPageChange that notifies at every report
OnPageChange_AlwaysNotifies(page, total, notified) ==
    /\ _currentPage' = page
    /\ _totalPages' = total
    /\ outputChanged' = TRUE

\* onPageChange (index.ts 84-90); notified tells that the step has called
\* notifyOutputChanged before
OnPageChange(page, total, notified) ==
    /\ _currentPage' = IF pageChanged(page, total) THEN page ELSE _currentPage
    /\ _totalPages' = IF pageChanged(page, total) THEN total ELSE _totalPages
    /\ outputChanged' = (outputChanged \/ notified \/ pageChanged(page, total))

\* the effect of a render (PdfViewer.tsx 188-190)
PageChangeEffect ==
    /\ OnPageChange(currentPage', totalPages', FALSE)
    /\ UNCHANGED _selectedColumn

\* onColumnChange (index.ts 91-96) called by loadDocument (PdfViewer.tsx
\* 248), then the effect of the render
ColumnAndPageChange(columnName) ==
    /\ _selectedColumn' = IF columnChanged(columnName) THEN columnName
                          ELSE _selectedColumn
    /\ OnPageChange(currentPage', totalPages', columnChanged(columnName))

\* getOutputs (index.ts 105-111)
getOutputs ==
    [currentPage |-> _currentPage, totalPages |-> _totalPages,
     selectedColumn |-> _selectedColumn]

(***************************************************************************)
(* ThumbnailPanel (1347-1540).  The panel is mounted while the viewer      *)
(* shows a document and the showSidebar property is set (1198-1224; the    *)
(* thumbnails tab is the default one, 88).  Its render effect (1410-1496)  *)
(* runs at mount and whenever currentPage or totalPages changes; every run *)
(* is an asynchronous pipeline that renders thumbnails one after another.  *)
(* A run holds the currentPage, the totalPages and the thumbnails map of   *)
(* the render that started it.                                             *)
(***************************************************************************)
ThumbSlots == 1..MaxThumbRuns

\* idleCallbackRef is null (1351)
NoIdle == <<>>

NoThumbRun ==
    [pc |-> "done", page |-> NoPage, currentPage |-> NoPage, totalPages |-> 0,
     thumbnails |-> {}, batch |-> 1, index |-> 0, task |-> "none"]

\* 1432-1433
ThumbStart(run) == Max(1, run.currentPage - THUMBNAIL_PREFETCH_BEFORE)
ThumbEnd(run) ==
    Min(run.totalPages, run.currentPage + THUMBNAIL_PREFETCH_AFTER)

\* 1441-1446
remainingPages(run) ==
    SelectSeq([i \in 1..Min(run.totalPages, THUMBNAIL_MAX_PAGES) |-> i],
              LAMBDA i : /\ i \notin run.thumbnails
                         /\ (i < ThumbStart(run) \/ i > ThumbEnd(run)))

\* the first page from i on for which the loop (1436-1438) awaits a render:
\* renderSingleThumbnail returns at once for a page the run's thumbnails map
\* has (1414); NoPage when the loop ends
RECURSIVE LoopPage(_, _)
LoopPage(run, i) ==
    IF i > ThumbEnd(run) \/ ~mountedRef THEN NoPage
    ELSE IF i \in run.thumbnails THEN LoopPage(run, i + 1)
    ELSE i

\* the loop from page i on (1436-1438), up to the next await: that of a
\* render, or the deferred delay (1468) after the list of remaining pages
\* has been made
LoopFrom(runs, r, i) ==
    LET p == LoopPage(runs[r], i)
    IN [runs EXCEPT ![r].pc = IF p = NoPage THEN "deferred" ELSE "awaitPage",
                    ![r].page = p, ![r].task = "none"]

\* processNextThumbnail(index) (1449-1465): index counts from 0
ProcessNextThumbnail(runs, r, index) ==
    IF ~mountedRef \/ index >= Len(remainingPages(runs[r]))
    THEN /\ thumbRuns' = [runs EXCEPT ![r] = NoThumbRun]
         /\ UNCHANGED idleCallbackRef
    ELSE /\ thumbRuns' = [runs EXCEPT ![r].pc = "idle", ![r].index = index,
                                      ![r].batch = 2, ![r].page = NoPage,
                                      ![r].task = "none"]
         /\ idleCallbackRef' = <<r, index>>

\* renderSingleThumbnail has returned to run r: the loop goes on (1437), or
\* the idle callback's promise is fulfilled (1453-1457)
ThumbContinue(r) ==
    IF thumbRuns[r].batch = 1
    THEN /\ thumbRuns' = LoopFrom(thumbRuns, r, thumbRuns[r].page + 1)
         /\ UNCHANGED idleCallbackRef
    ELSE ProcessNextThumbnail(thumbRuns, r, thumbRuns[r].index + 1)

\* the initial delay has passed (1474): renderThumbnails starts (1430-1438)
ThumbTimer(r) ==
    /\ thumbRuns[r].pc = "timer"
    /\ thumbRuns' = LoopFrom(thumbRuns, r, ThumbStart(thumbRuns[r]))
    /\ UNCHANGED <<showSidebar, thumbnails, mountedRef, thumbnailTasksRef,
                   idleCallbackRef, renderVars, visVars, docVars, navVars,
                   loadVars, viewVars, searchVars, errorMessage, hostVars, thumbListVars, serviceVars, canvasVars>>

\* pdfService.renderPage resolved with the render task (1417-1419)
ThumbTaskStarted(r) ==
    /\ thumbRuns[r].pc = "awaitPage"
    /\ thumbRuns' = [thumbRuns EXCEPT ![r].pc = "awaitRender",
                                      ![r].task = "live"]
    /\ thumbnailTasksRef' = MapSet(thumbnailTasksRef, thumbRuns[r].page, r)
    /\ UNCHANGED <<showSidebar, thumbnails, mountedRef, idleCallbackRef,
                   renderVars, visVars, docVars, navVars, loadVars, viewVars,
                   searchVars, errorMessage, hostVars, thumbListVars, serviceVars, canvasVars>>

\* the render task completed (1419-1424)
ThumbTaskCompleted(r) ==
    /\ thumbRuns[r].pc = "awaitRender" /\ thumbRuns[r].task = "live"
    /\ thumbnailTasksRef' = MapDel(thumbnailTasksRef, thumbRuns[r].page)
    /\ thumbnails' = IF mountedRef THEN thumbnails \cup {thumbRuns[r].page}
                     ELSE thumbnails
    /\ ThumbContinue(r)
    /\ UNCHANGED <<showSidebar, mountedRef, renderVars, visVars, docVars,
                   navVars, loadVars, viewVars, searchVars, errorMessage,
                   hostVars, thumbListVars, serviceVars, canvasVars>>

\* the render task was cancelled and its promise rejected (1425-1427)
ThumbTaskCancelled(r) ==
    /\ thumbRuns[r].pc = "awaitRender" /\ thumbRuns[r].task = "cancelled"
    /\ ThumbContinue(r)
    /\ UNCHANGED <<showSidebar, thumbnails, mountedRef, thumbnailTasksRef,
                   renderVars, visVars, docVars, navVars, loadVars, viewVars,
                   searchVars, errorMessage, hostVars, thumbListVars, serviceVars, canvasVars>>

\* the deferred delay has passed (1468-1471)
ThumbDeferred(r) ==
    /\ thumbRuns[r].pc = "deferred"
    /\ ProcessNextThumbnail(thumbRuns, r, 0)
    /\ UNCHANGED <<showSidebar, thumbnails, mountedRef, thumbnailTasksRef,
                   renderVars, visVars, docVars, navVars, loadVars, viewVars,
                   searchVars, errorMessage, hostVars, thumbListVars, serviceVars, canvasVars>>

\* the idle callback runs (1452-1453): renderSingleThumbnail returns at once
\* when mountedRef is not set (1414), and then the chain ends (1454)
ThumbIdle(r) ==
    /\ thumbRuns[r].pc = "idle"
    /\ thumbRuns' =
          IF mountedRef
          THEN [thumbRuns EXCEPT
                  ![r].pc = "awaitPage",
                  ![r].page = remainingPages(thumbRuns[r])[thumbRuns[r].index + 1]]
          ELSE [thumbRuns EXCEPT ![r] = NoThumbRun]
    /\ UNCHANGED <<showSidebar, thumbnails, mountedRef, thumbnailTasksRef,
                   idleCallbackRef, renderVars, visVars, docVars, navVars,
                   loadVars, viewVars, searchVars, errorMessage, hostVars, thumbListVars, serviceVars, canvasVars>>

\* the effect's cleanup (1475-1483, 1487-1494), but for mountedRef: the
\* timer is cleared, the idle callback idleCallbackRef names is cancelled,
\* and so are the tasks of the task map
ThumbCleanup ==
    [r \in ThumbSlots |->
        IF thumbRuns[r].pc = "timer" THEN NoThumbRun
        ELSE IF /\ thumbRuns[r].pc = "idle"
                /\ idleCallbackRef = <<r, thumbRuns[r].index>>
        THEN NoThumbRun
        ELSE IF /\ thumbRuns[r].task = "live"
                /\ r \in Values(thumbnailTasksRef)
        THEN [thumbRuns[r] EXCEPT !.task = "cancelled"]
        ELSE thumbRuns[r]]

\* the effect's body (1411, 1472-1474) in a render with the given props
ThumbEffect(runs, page, total, has) ==
    /\ mountedRef' = TRUE
    /\ IF total > 0
       THEN /\ \E r \in ThumbSlots : runs[r].pc = "done"
            /\ LET r == CHOOSE r \in ThumbSlots : runs[r].pc = "done"
               IN thumbRuns' = [runs EXCEPT ![r] =
                                   [NoThumbRun EXCEPT !.pc = "timer",
                                                      !.currentPage = page,
                                                      !.totalPages = total,
                                                      !.thumbnails = has]]
       ELSE thumbRuns' = runs

\* The thumbnail list (1372-1408, 1498-1531).  Heights are in pixels.
itemHeight == 220
ThumbnailVirtualizeAbove == 30
ThumbnailBufferBefore == 5
ThumbnailBufferAfter == 10

\* useState({ start: 1, end: 20 }) (1353)
InitialVisibleRange == [start |-> 1, end |-> 20]

\* 1499
useVirtualization(total) == total > ThumbnailVirtualizeAbove

\* updateVisibleRange (1377-1390) for a container scrolled to scrollTop
\* whose clientHeight is containerHeight
updateVisibleRange_Unclamped(total, scrollTop, containerHeight) ==
    LET startIndex == scrollTop \div itemHeight
        visibleCount == (containerHeight + itemHeight - 1) \div itemHeight
    IN [start |-> Max(1, startIndex - ThumbnailBufferBefore),
        end |-> startIndex + visibleCount + ThumbnailBufferAfter]

updateVisibleRange(total, scrollTop, containerHeight) ==
    LET startIndex == scrollTop \div itemHeight
        visibleCount == (containerHeight + itemHeight - 1) \div itemHeight
    IN [start |-> Max(1, startIndex - ThumbnailBufferBefore),
        end |-> Min(total, startIndex + visibleCount + ThumbnailBufferAfter)]

\* the thumbnail items the list renders (1509-1510)
MountedThumbnails(range, total) ==
    {pageNum \in 1..total :
        \/ ~useVirtualization(total)
        \/ (pageNum >= range.start /\ pageNum <= range.end)}

\* the heights of the spacers (1506, 1528); -1 when the spacer is not
\* rendered (1503, 1526)
NoSpacer == -1
TopSpacer(range, total) ==
    IF useVirtualization(total) THEN (range.start - 1) * itemHeight
    ELSE NoSpacer
BottomSpacer(range, total) ==
    IF useVirtualization(total) THEN Max(0, total - range.end) * itemHeight
    ELSE NoSpacer

\* The layout is the browser's: the clientHeight of the container, and the
\* height a thumbnail item really has, which itemHeight approximates (1380).
ContainerHeights == {0, 900}
ThumbItemHeights == {140, 240}

\* the scrollHeight of the container when every item is h pixels high
ThumbScrollHeight(range, total, h) ==
    Max(0, TopSpacer(range, total))
    + Cardinality(MountedThumbnails(range, total)) * h
    + Max(0, BottomSpacer(range, total))

\* the largest scrollTop the browser allows
MaxScrollTop(range, total, h, containerHeight) ==
    Max(0, ThumbScrollHeight(range, total, h) - containerHeight)

\* the visible-range effect (1373-1408) at mount and when totalPages
\* changed: the initial calculation (1405), for a virtualized list only
VisibleRangeEffect(range, total, scrollTop) ==
    IF useVirtualization(total)
    THEN \E containerHeight \in ContainerHeights :
            visibleRange' = updateVisibleRange(total, scrollTop,
                                               containerHeight)
    ELSE visibleRange' = range

ThumbnailPanelMounted == showSidebar /\ viewerState = "viewing"

\* What a render of the viewer does to the panel.  A panel that leaves the
\* tree, or is replaced because documentKey changed (1218), runs its cleanup
\* and its runs end: their mountedRef stays unset.  A new panel starts with
\* no thumbnails and new refs (1348-1351).  A panel that stays runs the
\* cleanup and then the effect when currentPage or totalPages changed (1496).
ThumbnailCommit ==
    LET mounted == showSidebar /\ viewerState' = "viewing"
        replaced == ~ThumbnailPanelMounted \/ documentKey' # documentKey
    IN /\ UNCHANGED showSidebar
       /\ IF ~mounted
          THEN /\ mountedRef' = FALSE
               /\ thumbRuns' = [r \in ThumbSlots |-> NoThumbRun]
               /\ thumbnailTasksRef' = EmptyMap
               /\ visibleRange' = InitialVisibleRange
               /\ thumbScrollTop' = 0
               /\ ticking' = FALSE
               /\ UNCHANGED <<thumbnails, idleCallbackRef>>
          ELSE IF replaced
          THEN /\ ThumbEffect([r \in ThumbSlots |-> NoThumbRun],
                              currentPage', totalPages', {})
               /\ thumbnails' = {}
               /\ thumbnailTasksRef' = EmptyMap
               /\ idleCallbackRef' = NoIdle
               /\ VisibleRangeEffect(InitialVisibleRange, totalPages', 0)
               /\ thumbScrollTop' = 0
               /\ ticking' = FALSE
          ELSE IF currentPage' # currentPage \/ totalPages' # totalPages
          THEN /\ ThumbEffect(ThumbCleanup, currentPage', totalPages',
                              thumbnails)
               /\ thumbnailTasksRef' = EmptyMap
               /\ IF totalPages' # totalPages
                  THEN /\ VisibleRangeEffect(visibleRange, totalPages',
                                             thumbScrollTop)
                       /\ ticking' = FALSE
                  ELSE UNCHANGED <<visibleRange, ticking>>
               /\ UNCHANGED <<thumbnails, idleCallbackRef, thumbScrollTop>>
          ELSE UNCHANGED <<thumbnails, mountedRef, thumbnailTasksRef,
                           idleCallbackRef, thumbRuns, thumbListVars>>

\* The container was scrolled to y, by the user or by the browser, which
\* keeps scrollTop within the scroll height.  handleScroll (1394-1402) is
\* attached for a virtualized list only (1375, 1404) and requests one
\* animation frame at a time.
ThumbScroll(y, h, containerHeight) ==
    /\ ThumbnailPanelMounted
    /\ y # thumbScrollTop
    /\ y <= MaxScrollTop(visibleRange, totalPages, h, containerHeight)
    /\ thumbScrollTop' = y
    /\ ticking' = (ticking \/ useVirtualization(totalPages))
    /\ UNCHANGED <<visibleRange, renderVars, visVars, docVars, navVars,
                   loadVars, viewVars, searchVars, errorMessage, hostVars,
                   thumbVars, serviceVars, canvasVars>>

\* The animation frame of handleScroll (1396-1399), and the layout of the
\* render setVisibleRange brings about: a scrollTop beyond the new scroll
\* height is brought back into it, which is a scroll.
ThumbScrollFrame(h, containerHeight) ==
    /\ ThumbnailPanelMounted
    /\ ticking
    /\ LET range == updateVisibleRange(totalPages, thumbScrollTop,
                                       containerHeight)
           top == Min(thumbScrollTop,
                      MaxScrollTop(range, totalPages, h, containerHeight))
       IN /\ visibleRange' = range
          /\ thumbScrollTop' = top
          /\ ticking' = (top # thumbScrollTop)
    /\ UNCHANGED <<renderVars, visVars, docVars, navVars, loadVars, viewVars,
                   searchVars, errorMessage, hostVars, thumbVars, serviceVars, canvasVars>>

(***************************************************************************)
(* Documents: the page viewports the rasterization engine reports.         *)
(***************************************************************************)
DocPageCount(d) ==
    CASE d = "small" -> SmallDocPages
      [] d = "large" -> LargeDocPages
      [] d = "pair" -> TextDocPages
      [] d = "thumbs" -> ThumbDocPages
      [] d = "threshold" -> VIRTUAL_SCROLL_THRESHOLD
      [] OTHER -> 0
DocViewport(d, n) == [width |-> IF d = "small" THEN 600 ELSE 800,
                      height |-> 800 + n]
DocViewports(d) == [n \in 1..DocPageCount(d) |-> DocViewport(d, n)]

\* The text items of page n (TextContent.items[i].str), each a sequence of
\* characters: page 1 reads "Aaa", "ab", every other page "baa".
PageText(n) == IF n = 1 THEN << <<"A", "a", "a">>, <<"a", "b">> >>
               ELSE << <<"b", "a", "a">> >>

\* The textContent Map, which forEach visits in insertion order: a sequence
\* of [pageNum, content] entries.  Map.set keeps the place of a present key.
TextPages(m) == {m[i].pageNum : i \in DOMAIN m}
TextSet(m, p, content) ==
    IF p \in TextPages(m)
    THEN [i \in DOMAIN m |-> IF m[i].pageNum = p
                             THEN [pageNum |-> p, content |-> content]
                             ELSE m[i]]
    ELSE Append(m, [pageNum |-> p, content |-> content])

\* the virtual window switched on at the threshold rather than above it
virtualWindow_AtThreshold ==
    LET total == Len(pageViewports) IN
    IF total < VIRTUAL_SCROLL_THRESHOLD
    THEN [startPage |-> 1, endPage |-> total, useVirtual |-> FALSE]
    ELSE [startPage |-> Max(1, currentPage - VIRTUAL_SCROLL_BUFFER_BEFORE),
          endPage |-> Min(total, currentPage + VIRTUAL_SCROLL_BUFFER_AFTER),
          useVirtual |-> TRUE]

\* the virtual window with the last page taken as a zero-based index
virtualWindow_ZeroBasedEnd ==
    LET total == Len(pageViewports) IN
    IF total <= VIRTUAL_SCROLL_THRESHOLD
    THEN [startPage |-> 1, endPage |-> total, useVirtual |-> FALSE]
    ELSE [startPage |-> Max(1, currentPage - VIRTUAL_SCROLL_BUFFER_BEFORE),
          endPage |-> Min(total - 1, currentPage + VIRTUAL_SCROLL_BUFFER_AFTER),
          useVirtual |-> TRUE]

(***************************************************************************)
(* PdfCanvas.virtualWindow (PdfViewer.tsx 1838-1848)                       *)
(***************************************************************************)
virtualWindow ==
    LET total == Len(pageViewports) IN
    IF total <= VIRTUAL_SCROLL_THRESHOLD
    THEN [startPage |-> 1, endPage |-> total, useVirtual |-> FALSE]
    ELSE [startPage |-> Max(1, currentPage - VIRTUAL_SCROLL_BUFFER_BEFORE),
          endPage |-> Min(total, currentPage + VIRTUAL_SCROLL_BUFFER_AFTER),
          useVirtual |-> TRUE]

\* PdfCanvas is rendered only in the viewing state of a PDF (1241-1258)
CanvasMounted == viewerState = "viewing" /\ fileType = "pdf"

\* the pages whose wrapper element (and canvas) is in the DOM (1883-1890)
MaterializedPages ==
    LET window == virtualWindow IN
    IF ~CanvasMounted THEN {}
    ELSE IF window.useVirtual THEN window.startPage..window.endPage
    ELSE 1..Len(pageViewports)

\* pageHeights (1851-1856): the scaled height of each page plus its 20 px
\* margin, in hundredths of a pixel as scales are in percent
pageHeights ==
    [i \in 1..Len(pageViewports) |->
        LET vp == pageViewports[i]
            isRotated == currentRotation % 180 # 0
        IN (IF isRotated THEN vp.width ELSE vp.height) * currentScale + 20 * 100]

\* the sum of the heights of the pages from..to
RECURSIVE SumHeights(_, _, _)
SumHeights(heights, from, to) ==
    IF from > to THEN 0
    ELSE heights[from] + SumHeights(heights, from + 1, to)

\* the spacers with the window's last page counted below the window
spacerHeights_EndPageBelow ==
    LET window == virtualWindow
        heights == pageHeights
    IN IF ~window.useVirtual
       THEN [topSpacerHeight |-> 0, bottomSpacerHeight |-> 0]
       ELSE [topSpacerHeight |->
                 SumHeights(heights, 1, Min(window.startPage - 1, Len(heights))),
             bottomSpacerHeight |->
                 SumHeights(heights, Max(window.endPage, 1), Len(heights))]

\* topSpacerHeight and bottomSpacerHeight (1859-1874): the heights of the
\* pages before startPage, and of the pages after endPage
spacerHeights ==
    LET window == virtualWindow
        heights == pageHeights
    IN IF ~window.useVirtual
       THEN [topSpacerHeight |-> 0, bottomSpacerHeight |-> 0]
       ELSE [topSpacerHeight |->
                 SumHeights(heights, 1, Min(window.startPage - 1, Len(heights))),
             bottomSpacerHeight |->
                 SumHeights(heights, Max(window.endPage + 1, 1), Len(heights))]

\* the summed heights of the page wrappers in the DOM
RECURSIVE SumOver(_, _)
SumOver(heights, pages) ==
    IF pages = {} THEN 0
    ELSE LET p == CHOOSE x \in pages : TRUE
         IN heights[p] + SumOver(heights, pages \ {p})
MaterializedHeight == SumOver(pageHeights, MaterializedPages)

(***************************************************************************)
(* The render scheduler (PdfCanvas.renderPage, 1620-1681).  A slot of      *)
(* `renders` is one invocation of renderPage: its page, the scale and      *)
(* rotation its closure captured, where it is suspended, and the state of  *)
(* the RenderTask it created.                                              *)
(***************************************************************************)
Slots == 1..MaxRenders
IdleRender == [pc |-> "idle", page |-> 0, scale |-> 0, rotation |-> 0,
               task |-> "none"]

\* a slot is free when its invocation has returned and no ref holds its task
FreeSlots == {s \in Slots : renders[s].pc = "idle"
                            /\ s \notin Values(renderTasksRef)}
NextSlot == CHOOSE s \in FreeSlots : \A t \in FreeSlots : s <= t

\* RenderTask.cancel(): a task that has not finished rejects its promise
Cancel(rs, ss) ==
    [s \in Slots |-> IF s \in ss /\ rs[s].task = "live"
                     THEN [rs[s] EXCEPT !.task = "cancelled"] ELSE rs[s]]

LiveTasks(p) == {s \in Slots : renders[s].task = "live" /\ renders[s].page = p}
InFlight(p) == {s \in Slots : renders[s].pc # "idle" /\ renders[s].page = p}

\* The canvases (1908-1915).  A page wrapper that the virtual window skips
\* (1887-1890) leaves the DOM with its canvas, and a page that is
\* materialized again, or shown by a new PdfCanvas (1244), has a new, empty
\* canvas; a renderPage invocation keeps the canvas it was given (1620).
CanvasCommit ==
    LET replaced == documentKey' # documentKey IN
    /\ canvasRaster' = IF replaced THEN {}
                       ELSE canvasRaster \cap MaterializedPages'
    /\ detachedRenders' =
          detachedRenders \cup
             {s \in Slots : /\ renders'[s].pc # "idle"
                            /\ \/ replaced
                               \/ renders'[s].page \notin MaterializedPages'}

\* the render task has drawn the page on the canvas of its invocation
DrawCanvas(s) ==
    /\ canvasRaster' = IF s \in detachedRenders THEN canvasRaster
                       ELSE canvasRaster \cup {renders[s].page}
    /\ UNCHANGED detachedRenders

\* the invocation has ended
ReleaseCanvas(s) ==
    /\ detachedRenders' = detachedRenders \ {s}
    /\ UNCHANGED canvasRaster

\* renderPage up to its first await (1620-1645); the canvas is cleared
\* (1638-1642)
RenderPageStart(p) ==
    /\ FreeSlots # {}
    /\ LET s == NextSlot
           existing == IF Has(renderTasksRef, p) THEN {renderTasksRef[p]} ELSE {}
       IN /\ renderingPagesRef' = renderingPagesRef \cup {p}
          /\ renderedPages' = MapSet(renderedPages, p, "rendering")
          /\ renders' = [Cancel(renders, existing) EXCEPT ![s] =
                            [pc |-> "awaitPage", page |-> p,
                             scale |-> currentScale,
                             rotation |-> currentRotation, task |-> "none"]]
          /\ renderTasksRef' = MapDel(renderTasksRef, p)
    /\ canvasRaster' = canvasRaster \ {p}
    /\ UNCHANGED <<textContent, renderTaskStartTimesRef, everRenderedRef,
                   detachedRenders, errorMessage, hostVars, thumbVars,
                   thumbListVars, serviceVars>>

\* the finally block (1676-1680)
Finally(p) ==
    /\ renderingPagesRef' = renderingPagesRef \ {p}
    /\ renderTaskStartTimesRef' = MapDel(renderTaskStartTimesRef, p)

\* a catch block that leaves the page's render state in the map
CatchFailure_KeepsState(p) == renderedPages' = renderedPages

\* the catch block for an error that is not a cancellation (1670-1675)
CatchFailure(p) == renderedPages' = MapDel(renderedPages, p)

\* pdfService.renderPage resolved: the task is started and registered
\* (PdfService.ts 243-269, PdfViewer.tsx 1645-1647)
RenderTaskStarted(s) ==
    /\ renders[s].pc = "awaitPage"
    /\ LET p == renders[s].page
       IN /\ renders' = [renders EXCEPT ![s].pc = "awaitRender",
                                        ![s].task = "live"]
          /\ renderTasksRef' = MapSet(renderTasksRef, p, s)
          /\ renderTaskStartTimesRef' = MapSet(renderTaskStartTimesRef, p, 0)
    /\ UNCHANGED <<renderedPages, textContent, renderingPagesRef,
                   everRenderedRef, visVars, docVars, navVars, loadVars, viewVars,
                   searchVars, errorMessage, hostVars, thumbVars, thumbListVars, serviceVars, canvasVars>>

\* pdfService.renderPage rejected (getPage failed, no canvas context)
RenderTaskStartFailed(s) ==
    /\ renders[s].pc = "awaitPage"
    /\ CatchFailure(renders[s].page)
    /\ Finally(renders[s].page)
    /\ renders' = [renders EXCEPT ![s] = IdleRender]
    /\ ReleaseCanvas(s)
    /\ visiblePagesRef' = <<>>
    /\ UNCHANGED <<textContent, renderTasksRef, everRenderedRef,
                   pageChangeDebounceRef, docVars, navVars, loadVars, viewVars,
                   searchVars, errorMessage, hostVars, thumbVars, thumbListVars, serviceVars>>

\* renderTask.promise resolved (1650-1657)
RenderTaskCompleted(s) ==
    /\ renders[s].pc = "awaitRender" /\ renders[s].task = "live"
    /\ LET p == renders[s].page
       IN /\ renderTasksRef' = MapDel(renderTasksRef, p)
          /\ renderTaskStartTimesRef' = MapDel(renderTaskStartTimesRef, p)
          /\ renders' = [renders EXCEPT ![s].pc = "awaitText",
                                        ![s].task = "none"]
    /\ DrawCanvas(s)
    /\ UNCHANGED <<renderedPages, textContent, renderingPagesRef,
                   everRenderedRef, visVars, docVars, navVars, loadVars, viewVars,
                   searchVars, errorMessage, hostVars, thumbVars, thumbListVars, serviceVars>>

\* renderTask.promise rejected with an error that is not a cancellation
RenderTaskFailed(s) ==
    /\ renders[s].pc = "awaitRender" /\ renders[s].task = "live"
    /\ CatchFailure(renders[s].page)
    /\ Finally(renders[s].page)
    /\ renders' = [renders EXCEPT ![s] = IdleRender]
    /\ ReleaseCanvas(s)
    /\ visiblePagesRef' = <<>>
    /\ UNCHANGED <<textContent, renderTasksRef, everRenderedRef,
                   pageChangeDebounceRef, docVars, navVars, loadVars, viewVars,
                   searchVars, errorMessage, hostVars, thumbVars, thumbListVars, serviceVars>>

\* renderTask.promise rejected with RenderingCancelledException (1663-1669,
\* then the finally block)
RenderTaskCancelled(s) ==
    /\ renders[s].pc = "awaitRender" /\ renders[s].task = "cancelled"
    /\ Finally(renders[s].page)
    /\ renders' = [renders EXCEPT ![s] = IdleRender]
    /\ ReleaseCanvas(s)
    /\ UNCHANGED <<renderedPages, textContent, renderTasksRef,
                   everRenderedRef, visVars, docVars, navVars, loadVars, viewVars,
                   searchVars, errorMessage, hostVars, thumbVars, thumbListVars, serviceVars>>

\* a completion that marks the page done without the ever-rendered mark
TextContentResolved_NoMark(s) ==
    /\ renders[s].pc = "awaitText"
    /\ LET p == renders[s].page
       IN /\ textContent' = TextSet(textContent, p, PageText(p))
          /\ renderedPages' = MapSet(renderedPages, p, "done")
          /\ Finally(p)
    /\ renders' = [renders EXCEPT ![s] = IdleRender]
    /\ ReleaseCanvas(s)
    /\ visiblePagesRef' = <<>>
    /\ UNCHANGED <<renderTasksRef, pageChangeDebounceRef, everRenderedRef,
                   docVars, navVars, loadVars, viewVars, searchVars,
                   errorMessage, hostVars, thumbVars, thumbListVars, serviceVars>>

\* pdfService.getTextContent resolved (1657-1662, then the finally block)
TextContentResolved(s) ==
    /\ renders[s].pc = "awaitText"
    /\ LET p == renders[s].page
       IN /\ textContent' = TextSet(textContent, p, PageText(p))
          /\ renderedPages' = MapSet(renderedPages, p, "done")
          /\ everRenderedRef' = everRenderedRef \cup {p}
          /\ Finally(p)
    /\ renders' = [renders EXCEPT ![s] = IdleRender]
    /\ ReleaseCanvas(s)
    /\ visiblePagesRef' = <<>>
    /\ UNCHANGED <<renderTasksRef, pageChangeDebounceRef, docVars, navVars, loadVars, viewVars,
                   searchVars, errorMessage, hostVars, thumbVars, thumbListVars, serviceVars>>

\* pdfService.getTextContent rejected
TextContentFailed(s) ==
    /\ renders[s].pc = "awaitText"
    /\ CatchFailure(renders[s].page)
    /\ Finally(renders[s].page)
    /\ renders' = [renders EXCEPT ![s] = IdleRender]
    /\ ReleaseCanvas(s)
    /\ visiblePagesRef' = <<>>
    /\ UNCHANGED <<textContent, renderTasksRef, everRenderedRef,
                   pageChangeDebounceRef, docVars, navVars, loadVars, viewVars,
                   searchVars, errorMessage, hostVars, thumbVars, thumbListVars, serviceVars>>

(***************************************************************************)
(* visiblePagesRef is a Map, which forEach visits in insertion order: a    *)
(* sequence of <<page, ratio>> entries.                                    *)
(***************************************************************************)
VisiblePages(m) == {m[i][1] : i \in DOMAIN m}
VisibleSet(m, p, ratio) ==
    IF p \in VisiblePages(m)
    THEN [i \in DOMAIN m |-> IF m[i][1] = p THEN <<p, ratio>> ELSE m[i]]
    ELSE Append(m, <<p, ratio>>)
VisibleDelete(m, p) == SelectSeq(m, LAMBDA e : e[1] # p)

\* the forEach of the debounced callback (1712-1719)
RECURSIVE MostVisibleFrom(_, _, _)
MostVisibleFrom(m, mostVisible, maxRatio) ==
    IF m = <<>> THEN mostVisible
    ELSE IF Head(m)[2] > maxRatio
         THEN MostVisibleFrom(Tail(m), Head(m)[1], Head(m)[2])
         ELSE MostVisibleFrom(Tail(m), mostVisible, maxRatio)
MostVisible(m) == MostVisibleFrom(m, 1, 0)

(***************************************************************************)
(* The pending-scroll effect (200-225) runs after a render in which        *)
(* currentPage changed: with a pending target it requests an animation     *)
(* frame whose callback holds that target.                                 *)
(***************************************************************************)
PendingScrollEffect(page, pending) ==
    IF page # currentPage /\ pending # NoPage
    THEN Append(animationFrames, pending)
    ELSE animationFrames

\* handlePageVisible depends on currentPage (1725): when it changes the
\* observer effect runs its cleanup (1802-1805)
ObserverEffect(page) ==
    IF page # currentPage THEN <<>> ELSE visiblePagesRef

(***************************************************************************)
(* PdfCanvas.handlePageVisible (1684-1725).  A change of renderedPages     *)
(* gives handlePageVisible a new identity, so the observer effect          *)
(* (1772-1806) runs its cleanup, which clears visiblePagesRef.  The        *)
(* debounce timer holds the currentPage its closure captured.              *)
(***************************************************************************)
VisibilityRecorded(p, isIntersecting, ratio) ==
    IF isIntersecting
    THEN VisibleSet(visiblePagesRef, p, ratio)
    ELSE VisibleDelete(visiblePagesRef, p)

\* a handler that requests a render without looking at the render-state map
HandlePageVisible_AnyState(p, isIntersecting, ratio) ==
    /\ CanvasMounted
    /\ p \in MaterializedPages
    /\ Len(VisibilityRecorded(p, isIntersecting, ratio)) <= MaxVisible
    /\ IF isIntersecting /\ p \notin renderingPagesRef
       THEN /\ RenderPageStart(p)
            /\ visiblePagesRef' = <<>>
       ELSE /\ visiblePagesRef' = VisibilityRecorded(p, isIntersecting, ratio)
            /\ UNCHANGED <<renderVars, canvasVars>>
    /\ pageChangeDebounceRef' = currentPage
    /\ UNCHANGED <<docVars, navVars, loadVars, viewVars,
                   searchVars, errorMessage, hostVars, thumbVars, thumbListVars, serviceVars>>

HandlePageVisible(p, isIntersecting, ratio) ==
    /\ CanvasMounted
    /\ p \in MaterializedPages
    /\ Len(VisibilityRecorded(p, isIntersecting, ratio)) <= MaxVisible
    /\ IF isIntersecting /\ ~Has(renderedPages, p) /\ p \notin renderingPagesRef
       THEN /\ RenderPageStart(p)
            /\ visiblePagesRef' = <<>>
       ELSE /\ visiblePagesRef' = VisibilityRecorded(p, isIntersecting, ratio)
            /\ UNCHANGED <<renderVars, canvasVars>>
    /\ pageChangeDebounceRef' = currentPage
    /\ UNCHANGED <<docVars, navVars, loadVars, viewVars,
                   searchVars, errorMessage, hostVars, thumbVars, thumbListVars, serviceVars>>

\* the debounced callback without its isNavigatingRef test
PageChangeDebounce_NoNavGuard ==
    /\ pageChangeDebounceRef # NoPage
    /\ pageChangeDebounceRef' = NoPage
    /\ LET mostVisible == MostVisible(visiblePagesRef)
           page == IF /\ Len(visiblePagesRef) > 0
                      /\ mostVisible # pageChangeDebounceRef
                   THEN mostVisible ELSE currentPage
       IN /\ currentPage' = page
          /\ animationFrames' = PendingScrollEffect(page, pendingScrollRef)
          /\ Len(animationFrames') <= MaxNavInFlight
          /\ visiblePagesRef' = ObserverEffect(page)
    /\ UNCHANGED <<isNavigatingRef, pendingScrollRef, settleTimers,
                   renderVars, docVars, loadVars, viewVars,
                   searchVars, errorMessage, serviceVars>>
    /\ PageChangeEffect
    /\ ThumbnailCommit
    /\ CanvasCommit

\* the debounced callback (1705-1724); onPageChange is setCurrentPage (1249)
PageChangeDebounce ==
    /\ pageChangeDebounceRef # NoPage
    /\ pageChangeDebounceRef' = NoPage
    /\ LET mostVisible == MostVisible(visiblePagesRef)
           page == IF /\ ~isNavigatingRef
                      /\ Len(visiblePagesRef) > 0
                      /\ mostVisible # pageChangeDebounceRef
                   THEN mostVisible ELSE currentPage
       IN /\ currentPage' = page
          /\ animationFrames' = PendingScrollEffect(page, pendingScrollRef)
          /\ Len(animationFrames') <= MaxNavInFlight
          /\ visiblePagesRef' = ObserverEffect(page)
    /\ UNCHANGED <<isNavigatingRef, pendingScrollRef, settleTimers,
                   renderVars, docVars, loadVars, viewVars,
                   searchVars, errorMessage, serviceVars>>
    /\ PageChangeEffect
    /\ ThumbnailCommit
    /\ CanvasCommit

(***************************************************************************)
(* The cleanup of the [scale, rotation] effect (1728-1742)                 *)
(***************************************************************************)
CancelAllRenderTasks ==
    /\ renders' = Cancel(renders, Values(renderTasksRef))
    /\ renderTasksRef' = EmptyMap
    /\ renderTaskStartTimesRef' = EmptyMap
    /\ renderingPagesRef' = {}
    /\ visiblePagesRef' = <<>>
    /\ pageChangeDebounceRef' = NoPage

\* applyZoom that clamps at the maximum only
ApplyZoom_NoMinimum(scale) ==
    LET newScale == Min(MAX_SCALE, scale) IN
    /\ CanvasMounted
    /\ currentScale' = newScale
    /\ renderedPages' = EmptyMap
    /\ textContent' = <<>>
    /\ IF newScale # currentScale
       THEN CancelAllRenderTasks
       ELSE /\ visiblePagesRef' = <<>>
            /\ UNCHANGED <<renders, renderTasksRef, renderTaskStartTimesRef,
                           renderingPagesRef, pageChangeDebounceRef>>
    /\ UNCHANGED <<everRenderedRef, docVars, navVars, loadVars, currentRotation,
                   searchVars, errorMessage, hostVars, thumbVars, thumbListVars, serviceVars, canvasVars>>

\* applyZoom that also forgets which pages were ever rendered
ApplyZoom_ForgetsEverRendered(scale) ==
    LET newScale == Max(MIN_SCALE, Min(MAX_SCALE, scale)) IN
    /\ CanvasMounted
    /\ currentScale' = newScale
    /\ renderedPages' = EmptyMap
    /\ textContent' = <<>>
    /\ everRenderedRef' = {}
    /\ IF newScale # currentScale
       THEN CancelAllRenderTasks
       ELSE /\ visiblePagesRef' = <<>>
            /\ UNCHANGED <<renders, renderTasksRef, renderTaskStartTimesRef,
                           renderingPagesRef, pageChangeDebounceRef>>
    /\ UNCHANGED <<docVars, navVars, loadVars, currentRotation,
                   searchVars, errorMessage, hostVars, thumbVars, thumbListVars, serviceVars, canvasVars>>

\* applyZoom (502-508), then the effects of the re-render
ApplyZoom(scale) ==
    LET newScale == Max(MIN_SCALE, Min(MAX_SCALE, scale)) IN
    /\ CanvasMounted
    /\ currentScale' = newScale
    /\ renderedPages' = EmptyMap
    /\ textContent' = <<>>
    /\ IF newScale # currentScale
       THEN CancelAllRenderTasks
       ELSE /\ visiblePagesRef' = <<>>
            /\ UNCHANGED <<renders, renderTasksRef, renderTaskStartTimesRef,
                           renderingPagesRef, pageChangeDebounceRef>>
    /\ UNCHANGED <<everRenderedRef, docVars, navVars, loadVars, currentRotation,
                   searchVars, errorMessage, hostVars, thumbVars, thumbListVars, serviceVars, canvasVars>>

\* the page size calculateScale fits (488-490): that of the first page,
\* with width and height exchanged in a rotated view
FitPage ==
    LET viewport == pageViewports[1]
        rotation == currentRotation % 180 # 0
    IN [pageWidth |-> IF rotation THEN viewport.height ELSE viewport.width,
        pageHeight |-> IF rotation THEN viewport.width ELSE viewport.height]

\* calculateScale (476-498) for a fit mode, in a container whose client
\* size is given; the quotients are taken to the whole percent below
calculateScale(mode, clientWidth, clientHeight) ==
    IF Len(pageViewports) = 0 THEN DEFAULT_SCALE
    ELSE LET containerWidth == clientWidth - 60
             containerHeight == clientHeight - 40
             widthScale == (containerWidth * 100) \div FitPage.pageWidth
             heightScale == (containerHeight * 100) \div FitPage.pageHeight
         IN CASE mode = "page-width" -> widthScale
              [] mode = "page-fit" -> Min(widthScale, heightScale)
              [] mode = "auto" -> Min(100, widthScale)

\* setZoom with a fit mode (519-521)
SetZoomFit(mode, clientWidth, clientHeight) ==
    ApplyZoom(calculateScale(mode, clientWidth, clientHeight))

\* the size of a page wrapper (1898-1900), in hundredths of a pixel
PageLayout(pageNum) ==
    LET viewport == pageViewports[pageNum]
        isRotated == currentRotation % 180 # 0
    IN [width |-> (IF isRotated THEN viewport.height ELSE viewport.width)
                     * currentScale,
        height |-> (IF isRotated THEN viewport.width ELSE viewport.height)
                      * currentScale]

\* setZoom with a percentage option (519-525, options 1066-1071)
SetZoom(value) == ApplyZoom(value)

\* zoomIn and zoomOut (511-517); scales are in percent, and the product and
\* the quotient are taken to the whole percent below
ZoomIn == ApplyZoom((currentScale * ZOOM_STEP) \div 100)
ZoomOut == ApplyZoom((currentScale * 100) \div ZOOM_STEP)

\* a rotation that is not brought back into a full turn
Rotate_NoWrap(delta) ==
    /\ CanvasMounted
    /\ currentRotation' = currentRotation + delta
    /\ renderedPages' = EmptyMap
    /\ textContent' = <<>>
    /\ CancelAllRenderTasks
    /\ UNCHANGED <<everRenderedRef, docVars, navVars, loadVars, currentScale,
                   searchVars, errorMessage, hostVars, thumbVars, thumbListVars, serviceVars, canvasVars>>

\* rotateLeft / rotateRight (578-588), then the effects of the re-render
Rotate(delta) ==
    /\ CanvasMounted
    /\ currentRotation' = (currentRotation + delta + 360) % 360
    /\ renderedPages' = EmptyMap
    /\ textContent' = <<>>
    /\ CancelAllRenderTasks
    /\ UNCHANGED <<everRenderedRef, docVars, navVars, loadVars, currentScale,
                   searchVars, errorMessage, hostVars, thumbVars, thumbListVars, serviceVars, canvasVars>>

RotateLeft == Rotate(-90)
RotateRight == Rotate(90)

(***************************************************************************)
(* The timeout sweep (1745-1762): the interval fires every half timeout.   *)
(* renderTaskStartTimesRef holds, for each start time, the time elapsed    *)
(* since it (Date.now() - startTime, in ms), as of the last tick.          *)
(***************************************************************************)
SweepPeriod == RENDER_TASK_TIMEOUT_MS \div 2

SweepTick ==
    /\ CanvasMounted
    /\ LET elapsed == [p \in DOMAIN renderTaskStartTimesRef |->
                          renderTaskStartTimesRef[p] + SweepPeriod]
           stale == {p \in DOMAIN elapsed : elapsed[p] > RENDER_TASK_TIMEOUT_MS}
           tasks == {renderTasksRef[p] : p \in stale \cap DOMAIN renderTasksRef}
       IN /\ renders' = Cancel(renders, tasks)
          /\ renderTasksRef' = MapDelAll(renderTasksRef, stale)
          /\ renderTaskStartTimesRef' = MapDelAll(elapsed, stale)
          /\ renderingPagesRef' = renderingPagesRef \ stale
    /\ UNCHANGED <<renderedPages, textContent, everRenderedRef,
                   visVars, docVars, navVars, loadVars, viewVars,
                   searchVars, errorMessage, hostVars, thumbVars, thumbListVars, serviceVars, canvasVars>>

(***************************************************************************)
(* Programmatic navigation (528-542) and the pending-scroll effect          *)
(* (200-225).  setCurrentPage re-renders at once; the effects of that       *)
(* render are taken with it.                                                *)
(***************************************************************************)
\* goToPage (528-539)
GoToPage(page) ==
    /\ viewerState = "viewing"
    /\ Len(animationFrames) + settleTimers < MaxNavInFlight
    /\ LET targetPage == Max(1, Min(totalPages, page))
       IN /\ isNavigatingRef' = TRUE
          /\ pendingScrollRef' = targetPage
          /\ currentPage' = targetPage
          /\ animationFrames' = PendingScrollEffect(targetPage, targetPage)
          /\ visiblePagesRef' = ObserverEffect(targetPage)
    /\ UNCHANGED <<settleTimers, pageChangeDebounceRef, renderVars, docVars,
                   loadVars, viewVars,
                   searchVars, errorMessage, serviceVars>>
    /\ PageChangeEffect
    /\ ThumbnailCommit
    /\ CanvasCommit

PreviousPage == GoToPage(currentPage - 1)
NextPage == GoToPage(currentPage + 1)

\* the Home and End keys (848-855)
GoToFirstPage == GoToPage(1)
GoToLastPage == GoToPage(totalPages)

\* the animation frame callback of the pending-scroll effect (206-224): it
\* scrolls to its target if the page element exists
AnimationFrame ==
    /\ animationFrames # <<>>
    /\ animationFrames' = Tail(animationFrames)
    /\ pendingScrollRef' = NoPage
    /\ settleTimers' = settleTimers + 1
    /\ UNCHANGED <<currentPage, isNavigatingRef, visVars, renderVars, docVars,
                   loadVars, viewVars,
                   searchVars, errorMessage, hostVars, thumbVars, thumbListVars, serviceVars, canvasVars>>

\* the settle timer (221-223)
SettleTimer ==
    /\ settleTimers > 0
    /\ settleTimers' = settleTimers - 1
    /\ isNavigatingRef' = FALSE
    /\ UNCHANGED <<currentPage, pendingScrollRef, animationFrames, visVars,
                   renderVars, docVars, loadVars, viewVars,
                   searchVars, errorMessage, hostVars, thumbVars, thumbListVars, serviceVars, canvasVars>>

(***************************************************************************)
(* Visibility tracking with the render scheduler left out: the part of     *)
(* handlePageVisible that records visibility and arms the debounce timer   *)
(* (1685-1686, 1696-1725), and the observer effect's cleanup (1802-1805),  *)
(* which every change of renderedPages by the scheduler brings about.      *)
(***************************************************************************)
TrackPageVisible(p, isIntersecting, ratio) ==
    /\ CanvasMounted
    /\ p \in MaterializedPages
    /\ Len(VisibilityRecorded(p, isIntersecting, ratio)) <= MaxVisible
    /\ visiblePagesRef' = VisibilityRecorded(p, isIntersecting, ratio)
    /\ pageChangeDebounceRef' = currentPage
    /\ UNCHANGED <<renderVars, docVars, navVars, loadVars, viewVars,
                   searchVars, errorMessage, hostVars, thumbVars, thumbListVars, serviceVars, canvasVars>>

ObserverReset ==
    /\ CanvasMounted
    /\ visiblePagesRef # <<>>
    /\ visiblePagesRef' = <<>>
    /\ UNCHANGED <<pageChangeDebounceRef, renderVars, docVars, navVars,
                   loadVars, viewVars,
                   searchVars, errorMessage, hostVars, thumbVars, thumbListVars, serviceVars, canvasVars>>

(***************************************************************************)
(* loadDocument (240-351).  An entry of `loads` is one call: the column it *)
(* loads, where it is suspended, and the document its outstanding         *)
(* getMetadata / getOutline promises read ("idle" when not outstanding).   *)
(* The index of the entry is thisLoadId.                                   *)
(***************************************************************************)
Stale(c) == loadIdRef # c
IsImageFile(col) == col = "image"
LoadAt(c, pc) == [loads EXCEPT ![c].pc = pc]

\* 255-265
ResetDocumentState ==
    /\ renderedPages' = EmptyMap
    /\ textContent' = <<>>
    /\ pageViewports' = <<>>
    /\ outline' = Null
    /\ metadata' = Null
    /\ currentPage' = 1
    /\ animationFrames' = PendingScrollEffect(1, pendingScrollRef)
    /\ documentKey' = documentKey + 1
    /\ everRenderedRef' = {}

\* 255-285: loadDocument from the resolution of destroy() to its next await
\* or return; ld holds the calls, view is the viewerState it runs in
AfterDestroy(ld, c, stale, view) ==
    /\ ResetDocumentState
    /\ IF stale
       THEN /\ fileType' = Null
            /\ totalPages' = 0
            /\ viewerState' = view
            /\ loads' = [ld EXCEPT ![c].pc = "done"]
       ELSE IF IsImageFile(ld[c].col)
       THEN /\ fileType' = "image"
            /\ totalPages' = 1
            /\ viewerState' = "viewing"
            /\ loads' = [ld EXCEPT ![c].pc = "done"]
       ELSE /\ fileType' = "pdf"
            /\ totalPages' = 0
            /\ viewerState' = view
            /\ loads' = [ld EXCEPT ![c].pc = "load"]

\* 242-254: the loading view replaces the canvas, whose effects clean up;
\* pdfService.destroy() (PdfService.ts 371-379) awaits the teardown of the
\* document, and without a document it resolves before any other callback
LoadDocumentUpTo(col, limit) ==
    /\ loadIdRef < limit
    /\ loadIdRef' = loadIdRef + 1
    /\ CancelAllRenderTasks
    /\ LET ld == Append(loads, [pc |-> "destroy", col |-> col,
                                meta |-> "idle", outl |-> "idle"])
       IN IF pdfDocument # Null
          THEN /\ loads' = ld
               /\ viewerState' = "loading"
               /\ UNCHANGED <<renderedPages, textContent, fileType,
                              totalPages, pageViewports, documentKey,
                              metadata, outline, currentPage,
                              animationFrames, everRenderedRef>>
          ELSE AfterDestroy(ld, loadIdRef + 1, FALSE, "loading")
    /\ UNCHANGED <<isNavigatingRef, pendingScrollRef, settleTimers,
                   pdfDocument, viewVars,
                   searchVars, errorMessage, serviceVars>>
    /\ ColumnAndPageChange(col)
    /\ ThumbnailCommit
    /\ CanvasCommit

LoadDocument(col) == LoadDocumentUpTo(col, MaxLoads)

\* the teardown has ended: destroy() clears the document and resolves.  The
\* teardown settles every operation in flight on the document first, so no
\* renderPage call of the unmounted canvas is left.  The canvas the new
\* documentKey mounts (1244) is a new instance, with new refs (1605-1617)
DestroyResolved(c) ==
    /\ c \in DOMAIN loads
    /\ loads[c].pc = "destroy"
    /\ \A b \in 1..(c - 1) : loads[b].pc # "destroy"
    /\ \A s \in Slots : renders[s].pc = "idle"
    /\ pdfDocument' = Null
    /\ AfterDestroy(loads, c, Stale(c), viewerState)
    /\ renderTasksRef' = EmptyMap
    /\ renderTaskStartTimesRef' = EmptyMap
    /\ renderingPagesRef' = {}
    /\ UNCHANGED <<loadIdRef, isNavigatingRef, pendingScrollRef, settleTimers,
                   visVars, renders, viewVars,
                   searchVars, errorMessage, serviceVars>>
    /\ PageChangeEffect
    /\ ThumbnailCommit
    /\ CanvasCommit

\* pdfService.loadFromUrl resolved (PdfService.ts 98, then 296-303)
LoadFromUrlResolved(c) ==
    /\ c \in DOMAIN loads
    /\ loads[c].pc = "load"
    /\ pdfDocument' = loads[c].col
    /\ IF Stale(c)
       THEN /\ loads' = LoadAt(c, "done")
            /\ UNCHANGED <<totalPages, currentPage, animationFrames>>
       ELSE /\ totalPages' = DocPageCount(loads[c].col)
            /\ currentPage' = 1
            /\ animationFrames' = PendingScrollEffect(1, pendingScrollRef)
            /\ loads' = LoadAt(c, "firstViewport")
    /\ UNCHANGED <<viewerState, fileType, pageViewports, documentKey,
                   metadata, outline, loadIdRef, isNavigatingRef,
                   pendingScrollRef, settleTimers, visVars, renderVars,
                   viewVars,
                   searchVars, errorMessage, serviceVars>>
    /\ PageChangeEffect
    /\ ThumbnailCommit
    /\ CanvasCommit

\* An error message is the set of the markers it contains, of those the
\* catch block looks for (342, 344); a thrown value that is not an Error
\* has the message 'Unknown error' (341), which contains none
Markers == {"400", "404", "not found", "Invalid PDF"}
ErrMsgs == SUBSET Markers

\* NoMessage is useState('') (71)
NoMessage == [text |-> "", errMsg |-> {}]

\* 342-348: the message set for a failure whose message is errMsg; the
\* third message embeds errMsg
LoadErrorMessage(errMsg) ==
    IF "400" \in errMsg \/ "404" \in errMsg \/ "not found" \in errMsg
    THEN [text |-> "No file found in this column", errMsg |-> {}]
    ELSE IF "Invalid PDF" \in errMsg
    THEN [text |-> "The file is not a valid PDF", errMsg |-> {}]
    ELSE [text |-> "Failed to load document", errMsg |-> errMsg]

\* a catch block that does not look at the load id
Catch_AnyLoad(c, errMsg) ==
    /\ errorMessage' = LoadErrorMessage(errMsg)
    /\ viewerState' = "error"

\* the catch block (338-350) for a failure with message errMsg
Catch(c, errMsg) ==
    IF Stale(c)
    THEN UNCHANGED <<viewerState, errorMessage>>
    ELSE /\ errorMessage' = LoadErrorMessage(errMsg)
         /\ viewerState' = "error"

\* pdfService.loadFromUrl rejected: the catch block (338-350)
\* the teardown has failed: `await this.document.destroy()` (PdfService.ts
\* 376) throws, so destroy() rejects with the document still assigned, and
\* `await pdfService.destroy()` (254) throws outside the try block (269):
\* the call ends with nothing after line 254 executed
DestroyRejected(c) ==
    /\ c \in DOMAIN loads
    /\ loads[c].pc = "destroy"
    /\ \A b \in 1..(c - 1) : loads[b].pc # "destroy"
    /\ loads' = LoadAt(c, "done")
    /\ UNCHANGED <<loadIdRef, pdfDocument, docVars, navVars, visVars,
                   renderVars, viewVars, searchVars, errorMessage, hostVars,
                   thumbVars, thumbListVars, serviceVars, canvasVars>>

LoadFromUrlRejected(c, errMsg) ==
    /\ c \in DOMAIN loads
    /\ loads[c].pc = "load"
    /\ loads' = LoadAt(c, "done")
    /\ Catch(c, errMsg)
    /\ UNCHANGED <<fileType, totalPages, pageViewports, documentKey,
                   metadata, outline, loadIdRef, pdfDocument, navVars,
                   visVars, renderVars, viewVars,
                   searchVars, hostVars, serviceVars>>
    /\ ThumbnailCommit
    /\ CanvasCommit

\* getPageViewport(1, 1) rejected (304): the catch block (338-350)
FirstViewportRejected(c, errMsg) ==
    /\ c \in DOMAIN loads
    /\ loads[c].pc = "firstViewport"
    /\ loads' = LoadAt(c, "done")
    /\ Catch(c, errMsg)
    /\ UNCHANGED <<fileType, totalPages, pageViewports, documentKey,
                   metadata, outline, loadIdRef, pdfDocument, navVars,
                   visVars, renderVars, viewVars,
                   searchVars, hostVars, serviceVars>>
    /\ ThumbnailCommit
    /\ CanvasCommit

\* getPageViewport(1, 1) resolved (304-311)
FirstViewportResolved(c) ==
    /\ c \in DOMAIN loads
    /\ loads[c].pc = "firstViewport"
    /\ IF Stale(c)
       THEN /\ loads' = LoadAt(c, "done")
            /\ UNCHANGED <<pageViewports, viewerState>>
       ELSE /\ pageViewports' = <<DocViewport(loads[c].col, 1)>>
            /\ viewerState' = "viewing"
            /\ loads' = LoadAt(c, "frame")
    /\ UNCHANGED <<fileType, totalPages, documentKey, metadata, outline,
                   loadIdRef, pdfDocument, navVars, visVars, renderVars,
                   viewVars,
                   searchVars, errorMessage, hostVars, serviceVars>>
    /\ ThumbnailCommit
    /\ CanvasCommit

\* the animation frame requested at 311 (312-314)
ViewportsFrame(c) ==
    /\ c \in DOMAIN loads
    /\ loads[c].pc = "frame"
    /\ loads' = LoadAt(c, IF Stale(c) THEN "done" ELSE "viewports")
    /\ UNCHANGED <<docVars, loadIdRef, pdfDocument, navVars, visVars,
                   renderVars, viewVars,
                   searchVars, errorMessage, hostVars, thumbVars, thumbListVars, serviceVars, canvasVars>>

\* the loop over the remaining viewports has ended (315-334): it wrote
\* them, or returned as stale, or getPage threw (PdfService.ts 178-183).
\* A new pageViewports.length re-runs the observer effect (1806).
AllViewportsResolved(c) ==
    /\ c \in DOMAIN loads
    /\ loads[c].pc = "viewports"
    /\ LET pageCount == DocPageCount(loads[c].col)
           loaded == /\ ~Stale(c)
                     /\ \/ pageCount <= 1
                        \/ /\ pdfDocument # Null
                           /\ DocPageCount(pdfDocument) >= pageCount
       IN IF loaded
          THEN /\ pageViewports' =
                     [i \in 1..pageCount |->
                         IF i = 1 THEN DocViewport(loads[c].col, 1)
                         ELSE DocViewport(pdfDocument, i)]
               /\ visiblePagesRef' = IF pageCount # Len(pageViewports)
                                     THEN <<>> ELSE visiblePagesRef
               /\ loads' = [loads EXCEPT ![c].pc = "done", ![c].meta = pdfDocument,
                                         ![c].outl = pdfDocument]
          ELSE /\ loads' = LoadAt(c, "done")
               /\ UNCHANGED <<pageViewports, visiblePagesRef>>
    /\ UNCHANGED <<viewerState, fileType, totalPages, documentKey, metadata,
                   outline, loadIdRef, pdfDocument, navVars,
                   pageChangeDebounceRef, renderVars, viewVars,
                   searchVars, errorMessage, hostVars, thumbVars, thumbListVars, serviceVars, canvasVars>>

\* getMetadata() resolved (326-329)
MetadataResolved(c) ==
    /\ c \in DOMAIN loads
    /\ loads[c].meta # "idle"
    /\ loads' = [loads EXCEPT ![c].meta = "idle"]
    /\ metadata' = IF Stale(c) THEN metadata ELSE loads[c].meta
    /\ UNCHANGED <<viewerState, fileType, totalPages, pageViewports,
                   documentKey, outline, loadIdRef, pdfDocument, navVars,
                   visVars, renderVars, viewVars,
                   searchVars, errorMessage, hostVars, thumbVars, thumbListVars, serviceVars, canvasVars>>

\* getOutline() resolved (330-333)
OutlineResolved(c) ==
    /\ c \in DOMAIN loads
    /\ loads[c].outl # "idle"
    /\ loads' = [loads EXCEPT ![c].outl = "idle"]
    /\ outline' = IF Stale(c) THEN outline ELSE loads[c].outl
    /\ UNCHANGED <<viewerState, fileType, totalPages, pageViewports,
                   documentKey, metadata, loadIdRef, pdfDocument, navVars,
                   visVars, renderVars, viewVars,
                   searchVars, errorMessage, hostVars, thumbVars, thumbListVars, serviceVars, canvasVars>>

(***************************************************************************)
(* A document that loadDocument has loaded and shown                       *)
(***************************************************************************)
\* with its first n pages rendered in page order
ViewerLoaded(d, n) ==
    /\ viewerState = "viewing"
    /\ fileType = "pdf"
    /\ currentPage = 1
    /\ totalPages = DocPageCount(d)
    /\ currentScale = DEFAULT_SCALE
    /\ currentRotation = 0
    /\ pageViewports = DocViewports(d)
    /\ renderedPages = [p \in 1..n |-> "done"]
    /\ textContent = [p \in 1..n |-> [pageNum |-> p, content |-> PageText(p)]]
    /\ documentKey = 1
    /\ metadata = d
    /\ outline = d
    /\ isNavigatingRef = FALSE
    /\ pendingScrollRef = NoPage
    /\ loadIdRef = 1
    /\ renderTasksRef = EmptyMap
    /\ renderTaskStartTimesRef = EmptyMap
    /\ renderingPagesRef = {}
    /\ visiblePagesRef = <<>>
    /\ pageChangeDebounceRef = NoPage
    /\ everRenderedRef = 1..n
    /\ renders = [s \in Slots |-> IdleRender]
    /\ animationFrames = <<>>
    /\ settleTimers = 0
    /\ loads = <<[pc |-> "done", col |-> d, meta |-> "idle",
                  outl |-> "idle"]>>
    /\ pdfDocument = d
    /\ searchText = <<>>
    /\ searchMatches = <<>>
    /\ currentMatchIndex = -1
    /\ showFindPanel = FALSE
    /\ searchDebounceRef = NoTimer
    /\ searchTimers = {}
    /\ errorMessage = NoMessage
    /\ _currentPage = 1
    /\ _totalPages = DocPageCount(d)
    /\ _selectedColumn = d
    /\ outputChanged = FALSE
    /\ pageCache = [p \in 1..DocPageCount(d) |-> d]
    /\ serviceCalls = <<>>
    /\ canvasRaster = 1..n
    /\ detachedRenders = {}

\* the control's default: no sidebar, so no ThumbnailPanel (index.ts 58)
LoadedRendered(d, n) ==
    /\ ViewerLoaded(d, n)
    /\ showSidebar = FALSE
    /\ thumbnails = {}
    /\ mountedRef = FALSE
    /\ thumbnailTasksRef = EmptyMap
    /\ idleCallbackRef = NoIdle
    /\ thumbRuns = [r \in ThumbSlots |-> NoThumbRun]
    /\ visibleRange = InitialVisibleRange
    /\ thumbScrollTop = 0
    /\ ticking = FALSE

Loaded(d) == LoadedRendered(d, 0)

(***************************************************************************)
(* The render scheduler on the small document                              *)
(***************************************************************************)
InitRender == Loaded("small")

NextRender ==
    \/ \E p \in 1..SmallDocPages, i \in BOOLEAN : HandlePageVisible(p, i, 100)
    \/ PageChangeDebounce
    \/ \E s \in Slots : RenderTaskStarted(s)
    \/ \E s \in Slots : RenderTaskStartFailed(s)
    \/ \E s \in Slots : RenderTaskCompleted(s)
    \/ \E s \in Slots : RenderTaskFailed(s)
    \/ \E s \in Slots : RenderTaskCancelled(s)
    \/ \E s \in Slots : TextContentResolved(s)
    \/ \E s \in Slots : TextContentFailed(s)
    \/ \E v \in {100, 200} : SetZoom(v)
    \/ RotateRight
    \/ SweepTick

SpecRender == InitRender /\ [][NextRender]_vars

(***************************************************************************)
(* Properties of the render scheduler (SpecRender)                         *)
(***************************************************************************)
Pages == 1..SmallDocPages

\* the continuation of renderPage invocation s runs on the rejection of its
\* cancelled task in this step
CancellationDelivered(s) ==
    /\ renders[s].pc = "awaitRender"
    /\ renders[s].task = "cancelled"
    /\ renders'[s].pc = "idle"

\* C1: for every page, at most one render task is live (started, neither
\* completed nor cancelled) at any instant.
C1_OneLiveTaskPerPage ==
    \A p \in Pages : Cardinality(LiveTasks(p)) <= 1

\* C2: once the cancellation of a page's render task has been delivered to
\* renderPage, the page is not left in the 'rendering' state with no render
\* in flight: it is in neither renderedPages nor renderingPagesRef, so the
\* next intersecting visibility signal requests a render.
C2_CancelledPageEligible ==
    [][\A s \in Slots :
          CancellationDelivered(s) =>
              LET p == renders[s].page
              IN \/ /\ p \notin DOMAIN renderedPages'
                    /\ p \notin renderingPagesRef'
                 \/ \E t \in Slots : /\ renders'[t].pc # "idle"
                                     /\ renders'[t].page = p]_vars

\* C7: a render marks its page 'done' (and publishes its text) only if the
\* scale and rotation it started at are still the current ones.
C7_DoneAtCurrentScale ==
    [][\A s \in Slots :
          (/\ renders[s].pc = "awaitText"
           /\ renders'[s].pc = "idle"
           /\ renders[s].page \in DOMAIN renderedPages'
           /\ renderedPages'[renders[s].page] = "done")
          => /\ renders[s].scale = currentScale
             /\ renders[s].rotation = currentRotation]_vars

\* C8: a scale or rotation change cancels every render in flight, registered
\* or not, so every live task was started at the current scale and rotation.
C8_LiveTasksAtCurrentScale ==
    \A s \in Slots :
        renders[s].task = "live" =>
            /\ renders[s].scale = currentScale
            /\ renders[s].rotation = currentRotation

\* C9: the continuation of a cancelled render leaves the shared render state
\* as it is: it removes no member of renderingPagesRef and no entry of
\* renderTaskStartTimesRef (what is there belongs to a newer render).
C9_CancelledRenderExitsClean ==
    [][\A s \in Slots :
          CancellationDelivered(s) =>
              UNCHANGED <<renderingPagesRef, renderTaskStartTimesRef,
                          renderTasksRef, renderedPages, textContent>>]_vars

(***************************************************************************)
(* Navigation and visibility tracking in the large document                *)
(***************************************************************************)
InitNav == Loaded("large")

Ratios == {0, 50, 100}
\* the pages around the current one, which the viewport shows
NearPages == (currentPage - VisibleReach)..(currentPage + VisibleReach)
JumpTargets == {1, 12, LargeDocPages}
LoadColumns == {"large", "image"}

NextNav ==
    \/ \E page \in JumpTargets : GoToPage(page)
    \/ PreviousPage
    \/ NextPage
    \/ AnimationFrame
    \/ SettleTimer
    \/ \E p \in NearPages, i \in BOOLEAN, ratio \in Ratios :
           TrackPageVisible(p, i, ratio)
    \/ ObserverReset
    \/ PageChangeDebounce

SpecNav == InitNav /\ [][NextNav]_vars

(***************************************************************************)
(* Properties of programmatic navigation (SpecNav)                         *)
(***************************************************************************)
\* C3: while the navigation flag is set, currentPage changes only by a
\* goToPage call, which makes it the pending target and keeps the flag: no
\* debounced visibility callback changes it before the flag is released, and
\* currentPage is the target for as long as the flag and the target stand.
C3_NavigationKeepsTarget ==
    [][/\ (isNavigatingRef /\ currentPage' # currentPage)
            => /\ isNavigatingRef'
               /\ pendingScrollRef' = currentPage'
       /\ (isNavigatingRef' /\ pendingScrollRef' # NoPage)
            => currentPage' = pendingScrollRef']_vars

\* a debounced callback has run during a navigation and left currentPage
\* alone, though the most visible page is another one
C3_CallbackIgnored ==
    /\ isNavigatingRef
    /\ pageChangeDebounceRef = NoPage
    /\ Len(visiblePagesRef) > 0
    /\ MostVisible(visiblePagesRef) # currentPage

\* C4: whenever the navigation flag is set or a scroll target is pending, an
\* animation frame or a settle timer that will clear them is outstanding, so
\* every goToPage call is followed by their release.
C4_ReleaseOutstanding ==
    (isNavigatingRef \/ pendingScrollRef # NoPage)
        => (animationFrames # <<>> \/ settleTimers > 0)

\* C5: the navigation flag stays set as long as the scroll to the pending
\* target has not been issued.
C5_FlagHeldUntilScroll ==
    pendingScrollRef # NoPage => isNavigatingRef

(***************************************************************************)
\* C29: when the page-change debounce fires outside a navigation, the page
\* it chooses as most visible is page 1 when the visibility record is empty
\* and otherwise a page of the record whose intersection ratio is the
\* highest of the record; it changes the current page only to the chosen
\* page, and only when that differs from the current page
C29_MostVisibleChosen ==
    [][(PageChangeDebounce /\ ~isNavigatingRef)
          => LET chosen == MostVisible(visiblePagesRef)
             IN /\ visiblePagesRef = <<>> => chosen = 1
                /\ visiblePagesRef # <<>> =>
                      \E i \in DOMAIN visiblePagesRef :
                          /\ visiblePagesRef[i][1] = chosen
                          /\ \A j \in DOMAIN visiblePagesRef :
                                 visiblePagesRef[j][2] <= visiblePagesRef[i][2]
                /\ currentPage' # currentPage
                      => currentPage' = chosen]_vars

(***************************************************************************)
(* Document loads, with navigation and visibility tracking in the          *)
(* documents they show                                                     *)
(***************************************************************************)
NextLoad ==
    \/ \E col \in LoadColumns : LoadDocument(col)
    \/ \E c \in 1..MaxLoads : DestroyResolved(c)
    \/ \E c \in 1..MaxLoads : LoadFromUrlResolved(c)
    \/ \E c \in 1..MaxLoads : LoadFromUrlRejected(c, {})
    \/ \E c \in 1..MaxLoads : FirstViewportResolved(c)
    \/ \E c \in 1..MaxLoads : ViewportsFrame(c)
    \/ \E c \in 1..MaxLoads : AllViewportsResolved(c)
    \/ \E c \in 1..MaxLoads : MetadataResolved(c)
    \/ \E c \in 1..MaxLoads : OutlineResolved(c)
    \/ GoToLastPage
    \/ AnimationFrame
    \/ SettleTimer
    \/ \E p \in NearPages : TrackPageVisible(p, TRUE, 100)
    \/ PageChangeDebounce

SpecLoad == InitNav /\ [][NextLoad]_vars

(***************************************************************************)
(* Properties of document loads (SpecLoad)                                 *)
(***************************************************************************)
documentState == <<renderedPages, textContent, pageViewports, currentPage,
                   totalPages, fileType, documentKey, viewerState, metadata,
                   outline>>

\* C6: a step in which a loadDocument call that is no longer the newest one
\* continues leaves the document state unchanged.
C6_StaleLoadWritesNothing ==
    [][\A c \in DOMAIN loads :
          (c < loadIdRef /\ loads'[c] # loads[c])
              => UNCHANGED documentState]_vars

\* C11: when the animation frame of a pending navigation runs while the
\* canvas is shown, the page it targets is among the materialized pages.
C11_TargetMaterializedAtScroll ==
    [][(CanvasMounted /\ animationFrames # <<>>
          /\ settleTimers' = settleTimers + 1)
          => Head(animationFrames) \in MaterializedPages]_vars

\* C10: whenever the virtual window is active, it contains currentPage.
C10_WindowContainsCurrentPage ==
    (CanvasMounted /\ virtualWindow.useVirtual)
        => /\ virtualWindow.startPage <= currentPage
           /\ currentPage <= virtualWindow.endPage

\* the virtual window of a document shown by a later load, with the current
\* page moved to its last page
C10_WindowAtLastPage ==
    /\ CanvasMounted
    /\ virtualWindow.useVirtual
    /\ loadIdRef > 1
    /\ currentPage = Len(pageViewports)

(***************************************************************************)
(* Search (602-733).  Strings are sequences of characters; offsets and     *)
(* item indices count from 0 as in the code.                               *)
(***************************************************************************)
ToLowerChar(ch) == CASE ch = "A" -> "a" [] ch = "B" -> "b" [] OTHER -> ch
toLowerCase(str) == [i \in 1..Len(str) |-> ToLowerChar(str[i])]

\* String.prototype.indexOf(searchString, position) for a non-empty
\* searchString: the first offset at or after position, or -1
indexOf(str, searchString, position) ==
    LET found == {i \in position..(Len(str) - Len(searchString)) :
                     SubSeq(str, i + 1, i + Len(searchString)) = searchString}
    IN IF found = {} THEN -1
       ELSE CHOOSE i \in found : \A j \in found : i <= j

\* the while loop of performSearch over one text item (617-630)
RECURSIVE ItemMatches(_, _, _, _, _, _)
ItemMatches(itemLower, searchLower, startIndex, pageNum, itemIndex, length) ==
    LET foundIndex == indexOf(itemLower, searchLower, startIndex) IN
    IF foundIndex = -1 THEN <<>>
    ELSE <<[pageNum |-> pageNum, itemIndex |-> itemIndex,
            startOffset |-> foundIndex, length |-> length]>>
         \o ItemMatches(itemLower, searchLower, foundIndex + 1, pageNum,
                        itemIndex, length)

\* content.items.forEach (613-631), from the item at position k
RECURSIVE ContentMatches(_, _, _, _)
ContentMatches(items, k, pageNum, text) ==
    IF k > Len(items) THEN <<>>
    ELSE ItemMatches(toLowerCase(items[k]), toLowerCase(text), 0, pageNum,
                     k - 1, Len(text))
         \o ContentMatches(items, k + 1, pageNum, text)

\* textContent.forEach (612-632), from the entry at position k
RECURSIVE FoundMatches(_, _, _)
FoundMatches(tc, k, text) ==
    IF k > Len(tc) THEN <<>>
    ELSE ContentMatches(tc[k].content, 1, tc[k].pageNum, text)
         \o FoundMatches(tc, k + 1, text)

\* the comparator of matches.sort (635-638)
CompareMatches(a, b) ==
    IF a.pageNum # b.pageNum THEN a.pageNum - b.pageNum
    ELSE a.itemIndex - b.itemIndex

\* Array.prototype.sort, which is stable: an insertion sort that puts each
\* element after the elements that do not come after it
RECURSIVE SortMatches(_, _)
SortMatches(sorted, rest) ==
    IF rest = <<>> THEN sorted
    ELSE LET m == Head(rest)
             k == Cardinality({i \in DOMAIN sorted :
                                  CompareMatches(sorted[i], m) <= 0})
         IN SortMatches(SubSeq(sorted, 1, k) \o <<m>>
                            \o SubSeq(sorted, k + 1, Len(sorted)),
                        Tail(rest))

\* the match list left in the order the matches were found
SearchResult_AsFound(text, tc) == FoundMatches(tc, 1, text)

\* the match list performSearch builds for a non-empty text over tc (609-638)
SearchResult(text, tc) == SortMatches(<<>>, FoundMatches(tc, 1, text))

\* clearTimeout(searchDebounceRef.current)
ClearSearchTimer == {t \in searchTimers : t.id # searchDebounceRef}
\* the id setTimeout returns: one no timer has
NewTimerId ==
    CHOOSE id \in 1..(Cardinality(searchTimers) + 2) :
        /\ id # searchDebounceRef
        /\ \A t \in searchTimers : t.id # id

\* openFindPanel (717-720)
OpenFindPanel ==
    /\ CanvasMounted
    /\ ~showFindPanel
    /\ showFindPanel' = TRUE
    /\ UNCHANGED <<searchText, searchMatches, currentMatchIndex,
                   searchDebounceRef, searchTimers, renderVars, visVars,
                   docVars, navVars, loadVars, viewVars, errorMessage, hostVars, thumbVars, thumbListVars, serviceVars, canvasVars>>

\* closeFindPanel (723-733)
CloseFindPanel ==
    /\ showFindPanel
    /\ searchTimers' = ClearSearchTimer
    /\ searchDebounceRef' = NoTimer
    /\ showFindPanel' = FALSE
    /\ searchText' = <<>>
    /\ searchMatches' = <<>>
    /\ currentMatchIndex' = -1
    /\ UNCHANGED <<renderVars, visVars, docVars, navVars, loadVars, viewVars, errorMessage, hostVars, thumbVars, thumbListVars, serviceVars, canvasVars>>

\* handleSearch that leaves the pending timer alone on an empty text
HandleSearch_EmptyKeepsTimer(text) ==
    /\ showFindPanel /\ CanvasMounted
    /\ text # searchText
    /\ searchText' = text
    /\ IF Len(text) < 1
       THEN /\ searchMatches' = <<>>
            /\ currentMatchIndex' = -1
            /\ searchTimers' = searchTimers
            /\ UNCHANGED searchDebounceRef
       ELSE /\ searchDebounceRef' = NewTimerId
            /\ searchTimers' = ClearSearchTimer \cup
                   {[id |-> NewTimerId, text |-> text, tc |-> textContent]}
            /\ UNCHANGED <<searchMatches, currentMatchIndex>>
    /\ UNCHANGED <<showFindPanel, renderVars, visVars, docVars, navVars,
                   loadVars, viewVars, errorMessage, hostVars, thumbVars, thumbListVars, serviceVars, canvasVars>>

\* handleSearch that arms a timer without clearing the pending one
HandleSearch_NoClear(text) ==
    /\ showFindPanel /\ CanvasMounted
    /\ text # searchText
    /\ searchText' = text
    /\ IF Len(text) < 1
       THEN /\ searchMatches' = <<>>
            /\ currentMatchIndex' = -1
            /\ searchTimers' = ClearSearchTimer
            /\ UNCHANGED searchDebounceRef
       ELSE /\ searchDebounceRef' = NewTimerId
            /\ searchTimers' = searchTimers \cup
                   {[id |-> NewTimerId, text |-> text, tc |-> textContent]}
            /\ UNCHANGED <<searchMatches, currentMatchIndex>>
    /\ UNCHANGED <<showFindPanel, renderVars, visVars, docVars, navVars,
                   loadVars, viewVars, errorMessage, hostVars, thumbVars, thumbListVars, serviceVars, canvasVars>>

\* handleSearch (650-669), called by the input's onChange with the new
\* value.  The timer's callback closes over the performSearch of the render
\* in which handleSearch was created, and that over its textContent.
HandleSearch(text) ==
    /\ showFindPanel /\ CanvasMounted
    /\ text # searchText
    /\ searchText' = text
    /\ IF Len(text) < 1
       THEN /\ searchMatches' = <<>>
            /\ currentMatchIndex' = -1
            /\ searchTimers' = ClearSearchTimer
            /\ UNCHANGED searchDebounceRef
       ELSE /\ searchDebounceRef' = NewTimerId
            /\ searchTimers' = ClearSearchTimer \cup
                   {[id |-> NewTimerId, text |-> text, tc |-> textContent]}
            /\ UNCHANGED <<searchMatches, currentMatchIndex>>
    /\ UNCHANGED <<showFindPanel, renderVars, visVars, docVars, navVars,
                   loadVars, viewVars, errorMessage, hostVars, thumbVars, thumbListVars, serviceVars, canvasVars>>

\* performSearch that selects the first match also when there is none
SearchCommit_SelectsFirst(t) ==
    /\ t \in searchTimers
    /\ searchTimers' = searchTimers \ {t}
    /\ searchMatches' = SearchResult(t.text, t.tc)
    /\ currentMatchIndex' = 0
    /\ UNCHANGED <<searchText, showFindPanel, searchDebounceRef, renderVars,
                   visVars, docVars, navVars, loadVars, viewVars, errorMessage, hostVars, thumbVars, thumbListVars, serviceVars, canvasVars>>

\* the debounce timer t fires: performSearch(text) (602-647)
SearchCommit(t) ==
    /\ t \in searchTimers
    /\ searchTimers' = searchTimers \ {t}
    /\ LET matches == SearchResult(t.text, t.tc)
       IN /\ searchMatches' = matches
          /\ currentMatchIndex' = IF Len(matches) > 0 THEN 0 ELSE -1
    /\ UNCHANGED <<searchText, showFindPanel, searchDebounceRef, renderVars,
                   visVars, docVars, navVars, loadVars, viewVars, errorMessage, hostVars, thumbVars, thumbListVars, serviceVars, canvasVars>>

\* searchNext that wraps one past the last match
SearchNext_WrapsLate ==
    /\ CanvasMounted
    /\ IF Len(searchMatches) = 0
       THEN UNCHANGED currentMatchIndex
       ELSE currentMatchIndex' =
                (currentMatchIndex + 1) % (Len(searchMatches) + 1)
    /\ UNCHANGED <<searchText, searchMatches, showFindPanel,
                   searchDebounceRef, searchTimers, renderVars, visVars,
                   docVars, navVars, loadVars, viewVars, errorMessage, hostVars, thumbVars, thumbListVars, serviceVars, canvasVars>>

\* searchNext (702-707)
SearchNext ==
    /\ CanvasMounted
    /\ IF Len(searchMatches) = 0
       THEN UNCHANGED currentMatchIndex
       ELSE currentMatchIndex' = (currentMatchIndex + 1) % Len(searchMatches)
    /\ UNCHANGED <<searchText, searchMatches, showFindPanel,
                   searchDebounceRef, searchTimers, renderVars, visVars,
                   docVars, navVars, loadVars, viewVars, errorMessage, hostVars, thumbVars, thumbListVars, serviceVars, canvasVars>>

\* searchPrev (709-714)
SearchPrev ==
    /\ CanvasMounted
    /\ IF Len(searchMatches) = 0
       THEN UNCHANGED currentMatchIndex
       ELSE currentMatchIndex' =
                (currentMatchIndex - 1 + Len(searchMatches)) % Len(searchMatches)
    /\ UNCHANGED <<searchText, searchMatches, showFindPanel,
                   searchDebounceRef, searchTimers, renderVars, visVars,
                   docVars, navVars, loadVars, viewVars, errorMessage, hostVars, thumbVars, thumbListVars, serviceVars, canvasVars>>

(***************************************************************************)
(* The virtual window over documents below, at and above the threshold     *)
(***************************************************************************)
WindowDocs == {"small", "threshold", "large"}
InitWindow == \E d \in WindowDocs : Loaded(d)

NextWindow ==
    \/ \E t \in JumpTargets : GoToPage(t)
    \/ PreviousPage
    \/ NextPage
    \/ AnimationFrame
    \/ SettleTimer
    \/ \E v \in {100, 200} : SetZoom(v)
    \/ RotateRight

SpecWindow == InitWindow /\ [][NextWindow]_vars

\* C12: with N pages and current page c the window is inactive with range
\* [1, N] when N is at most 30, and otherwise active with range
\* [max(1, c - 5), min(N, c + 8)].
C12_WindowRange ==
    LET N == Len(pageViewports)
        c == currentPage
    IN virtualWindow =
         IF N <= 30
         THEN [startPage |-> 1, endPage |-> N, useVirtual |-> FALSE]
         ELSE [startPage |-> IF c - 5 >= 1 THEN c - 5 ELSE 1,
               endPage |-> IF c + 8 <= N THEN c + 8 ELSE N,
               useVirtual |-> TRUE]

\* an active window clamped at neither end
C12_WindowUnclamped ==
    /\ virtualWindow.useVirtual
    /\ virtualWindow.startPage = currentPage - 5
    /\ virtualWindow.endPage = currentPage + 8
    /\ virtualWindow.startPage > 1
    /\ virtualWindow.endPage < Len(pageViewports)

\* C13: the two spacers and the materialized pages together are as high as
\* all the pages, and both spacers are 0 when the window is inactive.
C13_ScrollExtentKept ==
    CanvasMounted =>
        /\ spacerHeights.topSpacerHeight + spacerHeights.bottomSpacerHeight
               + MaterializedHeight
             = SumHeights(pageHeights, 1, Len(pageViewports))
        /\ ~virtualWindow.useVirtual
             => /\ spacerHeights.topSpacerHeight = 0
                /\ spacerHeights.bottomSpacerHeight = 0

\* an active window with pages above and below it, rotated and zoomed
C13_BothSpacers ==
    /\ CanvasMounted
    /\ virtualWindow.useVirtual
    /\ spacerHeights.topSpacerHeight > 0
    /\ spacerHeights.bottomSpacerHeight > 0
    /\ currentRotation = 90
    /\ currentScale = 200

(***************************************************************************)
(* Search over the two-page document while its pages are rendered          *)
(***************************************************************************)
Queries == {<<>>, <<"a", "a">>, <<"A", "B">>}
InitSearch == Loaded("pair")

NextSearch ==
    \/ \E p \in 1..TextDocPages : HandlePageVisible(p, TRUE, 100)
    \/ \E s \in Slots : RenderTaskStarted(s)
    \/ \E s \in Slots : RenderTaskCompleted(s)
    \/ \E s \in Slots : TextContentResolved(s)
    \/ OpenFindPanel
    \/ CloseFindPanel
    \/ \E text \in Queries : HandleSearch(text)
    \/ \E t \in searchTimers : SearchCommit(t)
    \/ SearchNext
    \/ SearchPrev

SpecSearch == InitSearch /\ [][NextSearch]_vars

(***************************************************************************)
(* Properties of search (SpecSearch)                                       *)
(***************************************************************************)
\* match a comes before match b by page, then item index, then start offset
MatchBefore(a, b) ==
    \/ a.pageNum < b.pageNum
    \/ a.pageNum = b.pageNum /\ a.itemIndex < b.itemIndex
    \/ a.pageNum = b.pageNum /\ a.itemIndex = b.itemIndex
          /\ a.startOffset < b.startOffset

\* C14: the match list is sorted by page number, then item index, then
\* start offset, whatever the order in which the pages' text was extracted.
C14_MatchesSorted ==
    \A i \in 1..(Len(searchMatches) - 1) :
        MatchBefore(searchMatches[i], searchMatches[i + 1])

\* matches on both pages, two of them in one item, found in text that was
\* extracted for page 2 before page 1
C14_SortedAfterReverseExtraction ==
    /\ Len(textContent) = 2
    /\ textContent[1].pageNum = 2
    /\ \E i, j, k \in DOMAIN searchMatches :
          /\ searchMatches[i].pageNum = 1
          /\ searchMatches[j].pageNum = 1
          /\ searchMatches[i].itemIndex = searchMatches[j].itemIndex
          /\ i # j
          /\ searchMatches[k].pageNum = 2

\* C15: the matches of one item are occurrences that do not overlap: each
\* starts at or after the end of the one before it.
C15_OccurrencesDisjoint ==
    \A i, j \in DOMAIN searchMatches :
        (/\ i < j
         /\ searchMatches[i].pageNum = searchMatches[j].pageNum
         /\ searchMatches[i].itemIndex = searchMatches[j].itemIndex)
        => searchMatches[j].startOffset
             >= searchMatches[i].startOffset + searchMatches[i].length

\* C17: searchNext moves the index to (i + 1) mod n and searchPrev to
\* (i - 1 + n) mod n; with no matches both leave it unchanged.
C17_NextPrevWrap ==
    [][LET n == Len(searchMatches)
           i == currentMatchIndex
       IN /\ SearchNext =>
               currentMatchIndex' = IF n > 0 THEN (i + 1) % n ELSE i
          /\ SearchPrev =>
               currentMatchIndex' = IF n > 0 THEN (i - 1 + n) % n ELSE i]_vars

\* the last of at least three matches is selected
C17_LastMatchSelected ==
    /\ Len(searchMatches) >= 3
    /\ currentMatchIndex = Len(searchMatches) - 1

\* C18: while the search text is empty there are no matches, no match is
\* selected and no search timer is pending.
C18_EmptyQueryClears ==
    searchText = <<>> =>
        /\ searchMatches = <<>>
        /\ currentMatchIndex = -1
        /\ searchTimers = {}

\* the query has been emptied in the open panel after a timer was armed
C18_EmptiedAfterTimer ==
    /\ showFindPanel
    /\ searchText = <<>>
    /\ searchDebounceRef # NoTimer

\* C19: at most one search timer is pending, and it holds the current
\* search text.
C19_OneTimerCurrentText ==
    /\ Cardinality(searchTimers) <= 1
    /\ \A t \in searchTimers : t.text = searchText

\* a timer armed by a query that replaced an earlier one is pending
C19_SecondTimerPending ==
    \E t \in searchTimers : t.id = 2 /\ t.text = searchText

\* C20: a search that commits yields the matches found in the page text
\* extracted at that instant.
C20_CommitScansCurrentText ==
    [][\A t \in searchTimers :
          SearchCommit(t) => searchMatches' = SearchResult(t.text, textContent)]_vars

(***************************************************************************)
(* Search in a document whose pages have been rendered, while it is       *)
(* zoomed, rotated and reloaded                                            *)
(***************************************************************************)
InitFind == LoadedRendered("pair", TextDocPages)

NextFind ==
    \/ SetZoom(200)
    \/ RotateRight
    \/ LoadDocument("pair")
    \/ \E c \in 1..MaxLoads : DestroyResolved(c)
    \/ \E c \in 1..MaxLoads : LoadFromUrlResolved(c)
    \/ \E c \in 1..MaxLoads : FirstViewportResolved(c)
    \/ \E c \in 1..MaxLoads : ViewportsFrame(c)
    \/ \E c \in 1..MaxLoads : AllViewportsResolved(c)
    \/ OpenFindPanel
    \/ CloseFindPanel
    \/ \E text \in Queries : HandleSearch(text)
    \/ \E t \in searchTimers : SearchCommit(t)
    \/ SearchNext
    \/ SearchPrev

SpecFind == InitFind /\ [][NextFind]_vars

\* C16: the current match index is in [-1, number of matches), and is -1
\* exactly when there are no matches.
C16_IndexInRange ==
    /\ currentMatchIndex \in -1..(Len(searchMatches) - 1)
    /\ currentMatchIndex = -1 <=> Len(searchMatches) = 0

\* a match other than the first is selected after a rotation and a reload
C16_SelectedAcrossReload ==
    /\ loadIdRef > 1
    /\ currentRotation # 0
    /\ currentMatchIndex > 0

(***************************************************************************)
(* The ever-rendered mark (1617, 1662) within one document.                *)
(***************************************************************************)
\* C21: within one document a page that has rendered keeps its ever-rendered
\* mark through every step, zoom and rotation included, while its render
\* state is reset and set again
C21_EverRenderedKept == [][everRenderedRef \subseteq everRenderedRef']_vars

\* a page rendered before a zoom and a rotation is rendered again after them
C21_RenderedAgainAfterZoom ==
    \E p \in Pages :
        /\ p \in everRenderedRef
        /\ Has(renderedPages, p) /\ renderedPages[p] = "done"
        /\ currentScale # DEFAULT_SCALE
        /\ currentRotation # 0
        /\ \A s \in Slots : renders[s].pc = "idle"

(***************************************************************************)
(* Failing loads: loadDocument with the messages its catch block tells     *)
(* apart                                                                   *)
(***************************************************************************)
LoadErrors == {{}, {"400"}, {"404"}, {"not found"}, {"Invalid PDF"},
               {"404", "Invalid PDF"}}

InitFail == Loaded("small")

NextFail ==
    \/ \E col \in {"small", "image"} : LoadDocument(col)
    \/ \E c \in 1..MaxLoads : DestroyResolved(c)
    \/ \E c \in 1..MaxLoads : LoadFromUrlResolved(c)
    \/ \E c \in 1..MaxLoads, e \in LoadErrors : LoadFromUrlRejected(c, e)
    \/ \E c \in 1..MaxLoads : FirstViewportResolved(c)
    \/ \E c \in 1..MaxLoads, e \in LoadErrors : FirstViewportRejected(c, e)
    \/ \E c \in 1..MaxLoads : ViewportsFrame(c)
    \/ \E c \in 1..MaxLoads : AllViewportsResolved(c)
    \/ \E c \in 1..MaxLoads : MetadataResolved(c)
    \/ \E c \in 1..MaxLoads : OutlineResolved(c)

SpecFail == InitFail /\ [][NextFail]_vars

UpdateView ==
    /\ OnPageChange(currentPage, totalPages, FALSE)
    /\ UNCHANGED <<renderVars, visVars, docVars, navVars, loadVars, viewVars,
                   searchVars, errorMessage, _selectedColumn, thumbVars, thumbListVars, serviceVars, canvasVars>>

\* the framework calls getOutputs after a notification
GetOutputs ==
    /\ outputChanged
    /\ outputChanged' = FALSE
    /\ UNCHANGED <<renderVars, visVars, docVars, navVars, loadVars, viewVars,
                   searchVars, errorMessage, _currentPage, _totalPages,
                   _selectedColumn, thumbVars, thumbListVars, serviceVars, canvasVars>>

HostColumns == {"small", "pair", "image"}

InitHost == Loaded("pair")

NextHost ==
    \/ UpdateView
    \/ GetOutputs
    \/ NextPage
    \/ PreviousPage
    \/ AnimationFrame
    \/ SettleTimer
    \/ \E col \in HostColumns : LoadDocument(col)
    \/ \E c \in 1..MaxLoads : DestroyResolved(c)
    \/ \E c \in 1..MaxLoads : LoadFromUrlResolved(c)
    \/ \E c \in 1..MaxLoads : LoadFromUrlRejected(c, {})
    \/ \E c \in 1..MaxLoads : FirstViewportResolved(c)
    \/ \E c \in 1..MaxLoads : ViewportsFrame(c)
    \/ \E c \in 1..MaxLoads : AllViewportsResolved(c)

SpecHost == InitHost /\ [][NextHost]_vars

\* C23: after every step getOutputs returns the page, the page count and the
\* column the viewer last reported (its current page and page count, and the
\* column of its latest load); a step calls notifyOutputChanged exactly when
\* a value it reports differs from the stored one, so updateView, which
\* reports the values again, calls it no further time
C23_OutputsFollowReports ==
    [][LET reportDiffers ==
               \/ currentPage' # _currentPage
               \/ totalPages' # _totalPages
               \/ /\ Len(loads') > Len(loads)
                  /\ loads'[Len(loads')].col # _selectedColumn
       IN /\ getOutputs' = [currentPage |-> currentPage',
                            totalPages |-> totalPages',
                            selectedColumn |-> loads'[Len(loads')].col]
          /\ ~outputChanged => (outputChanged' <=> reportDiffers)
          /\ UpdateView => UNCHANGED outputChanged]_vars

\* the outputs have followed the viewer to page 2 of a newly loaded document
\* and the framework has fetched them: nothing is left to notify
C23_OutputsFetched ==
    /\ ~outputChanged
    /\ loadIdRef > 1
    /\ documentKey > 1
    /\ viewerState = "viewing"
    /\ getOutputs = [currentPage |-> 2, totalPages |-> TextDocPages,
                     selectedColumn |-> "pair"]

(***************************************************************************)
(* Zooming: the toolbar buttons, the keyboard and the zoom selector        *)
(***************************************************************************)
\* numeric arguments of setZoom, in percent: the selector's options and
\* values on either side of the allowed range
ZoomValues == {0, 10, 50, 100, 125, 300, 400, 600}

InitZoom == Loaded("small")

NextZoom ==
    \/ ZoomIn
    \/ ZoomOut
    \/ \E v \in ZoomValues : SetZoom(v)
    \/ RotateLeft
    \/ RotateRight

SpecZoom == InitZoom /\ [][NextZoom]_vars

\* C24: after any sequence of zoom-in, zoom-out and set-zoom operations with
\* numeric arguments the scale lies between 25% and 500%
C24_ScaleInRange == MIN_SCALE <= currentScale /\ currentScale <= MAX_SCALE

\* zooming out of the smallest scale has left the scale at the minimum
C24_AtMinimumAfterZoomOut ==
    /\ currentScale = MIN_SCALE
    /\ currentRotation # 0
    /\ ENABLED ZoomOut

(***************************************************************************)
(* Failed renders (SpecRender)                                             *)
(***************************************************************************)
\* C26: when a render or a text extraction fails with an error that is not
\* a cancellation, its page is left without an entry in the render-state map
\* and out of the rendering set, which is what makes the next intersecting
\* visibility signal for the page issue a new render request, and the viewer
\* stays in the 'viewing' state
C26_FailedPageRetryable ==
    [][\A s \in Slots :
          (RenderTaskStartFailed(s) \/ RenderTaskFailed(s)
             \/ TextContentFailed(s))
             => /\ ~Has(renderedPages', renders[s].page)
                /\ renders[s].page \notin renderingPagesRef'
                /\ viewerState' = "viewing"]_vars

\* a page's render task has failed: the task is still in the task map, no
\* render is in flight and the page can be requested again
C26_FailedRenderLeft ==
    \E p \in Pages :
        /\ Has(renderTasksRef, p)
        /\ \A s \in Slots : renders[s].pc = "idle"
        /\ ~Has(renderedPages, p)
        /\ p \notin renderingPagesRef
        /\ viewerState = "viewing"
        /\ ENABLED HandlePageVisible(p, TRUE, 100)

(***************************************************************************)
(* Render requests (SpecRender)                                            *)
(***************************************************************************)
\* C28: a visibility signal for page p issues a render request exactly when
\* it is intersecting, p has no entry in the render-state map and p is not
\* in the rendering set; a signal for a rendered or rendering page issues
\* none
C28_RequestIffEligible ==
    [][\A p \in Pages, i \in BOOLEAN :
          HandlePageVisible(p, i, 100)
             => ((\E s \in Slots : /\ renders[s].pc = "idle"
                                  /\ renders'[s].pc = "awaitPage"
                                  /\ renders'[s].page = p)
                   <=> (/\ i
                        /\ ~Has(renderedPages, p)
                        /\ p \notin renderingPagesRef))]_vars

\* an intersecting signal for a page that is rendering has been recorded
\* and has issued no second request
C28_SignalWhileRendering ==
    \E p \in Pages :
        /\ p \in VisiblePages(visiblePagesRef)
        /\ Has(renderedPages, p) /\ renderedPages[p] = "rendering"
        /\ p \in renderingPagesRef
        /\ Cardinality(InFlight(p)) = 1

(***************************************************************************)
(* The timeout sweep (SpecRender)                                          *)
(***************************************************************************)
\* C27: every render that stays in flight longer than the timeout is
\* cancelled by a later sweep tick, which takes its page out of the task
\* map, the start-time map and the rendering set.  The sweep cancels the
\* tasks it finds through the start-time map and the task map, so this
\* needs every live render task to have its page's start time on record and
\* to be the task the task map holds for the page.
C27_LiveTaskOnSweepRecord ==
    \A s \in Slots :
        renders[s].task = "live"
            => /\ Has(renderTaskStartTimesRef, renders[s].page)
               /\ Has(renderTasksRef, renders[s].page)
               /\ renderTasksRef[renders[s].page] = s

(***************************************************************************)
(* Rendering across zoom, rotation and document loads                      *)
(***************************************************************************)
InitReload == Loaded("small")

NextReload ==
    \/ \E p \in 1..SmallDocPages, i \in BOOLEAN : HandlePageVisible(p, i, 100)
    \/ \E s \in Slots : RenderTaskStarted(s)
    \/ \E s \in Slots : RenderTaskCompleted(s)
    \/ \E s \in Slots : RenderTaskFailed(s)
    \/ \E s \in Slots : RenderTaskCancelled(s)
    \/ \E s \in Slots : TextContentResolved(s)
    \/ \E s \in Slots : TextContentFailed(s)
    \/ SetZoom(200)
    \/ RotateRight
    \/ LoadDocument("small")
    \/ \E c \in 1..MaxLoads : DestroyResolved(c)
    \/ \E c \in 1..MaxLoads : LoadFromUrlResolved(c)
    \/ \E c \in 1..MaxLoads : FirstViewportResolved(c)

SpecReload == InitReload /\ [][NextReload]_vars

InitThumb ==
    /\ ViewerLoaded("thumbs", 0)
    /\ showSidebar = TRUE
    /\ thumbnails = {}
    /\ mountedRef = TRUE
    /\ thumbnailTasksRef = EmptyMap
    /\ idleCallbackRef = NoIdle
    /\ thumbRuns = [r \in ThumbSlots |->
                      IF r = 1
                      THEN [NoThumbRun EXCEPT !.pc = "timer",
                                              !.currentPage = 1,
                                              !.totalPages = ThumbDocPages]
                      ELSE NoThumbRun]
    /\ visibleRange = InitialVisibleRange
    /\ thumbScrollTop = 0
    /\ ticking = FALSE

NextThumb ==
    \/ \E r \in ThumbSlots : ThumbTimer(r)
    \/ \E r \in ThumbSlots : ThumbTaskStarted(r)
    \/ \E r \in ThumbSlots : ThumbTaskCompleted(r)
    \/ \E r \in ThumbSlots : ThumbTaskCancelled(r)
    \/ \E r \in ThumbSlots : ThumbDeferred(r)
    \/ \E r \in ThumbSlots : ThumbIdle(r)
    \/ GoToLastPage
    \/ AnimationFrame
    \/ SettleTimer

SpecThumb == InitThumb /\ [][NextThumb]_vars

\* C30: thumbnail renders are issued one at a time: at no instant are two
\* thumbnail render tasks in flight, also after a change of the current page
\* has run the effect again
C30_OneThumbnailTask ==
    Cardinality({r \in ThumbSlots : thumbRuns[r].task = "live"}) <= 1
(***************************************************************************)
(* The thumbnail list of documents below, at and above the virtualization  *)
(* threshold, while it is scrolled and other documents are loaded          *)
(***************************************************************************)
ScrollStep == 440
ThumbScrollTops == {k * ScrollStep : k \in 0..((LargeDocPages * 240) \div ScrollStep)}
ThumbListDocs == {"thumbs", "threshold", "large"}

\* the panel as its mount leaves it
InitThumbList ==
    \E d \in ThumbListDocs :
        /\ ViewerLoaded(d, 0)
        /\ showSidebar = TRUE
        /\ thumbnails = {}
        /\ mountedRef = TRUE
        /\ thumbnailTasksRef = EmptyMap
        /\ idleCallbackRef = NoIdle
        /\ thumbRuns = [r \in ThumbSlots |->
                          IF r = 1
                          THEN [NoThumbRun EXCEPT
                                  !.pc = "timer",
                                  !.currentPage = 1,
                                  !.totalPages = DocPageCount(d)]
                          ELSE NoThumbRun]
        /\ \E containerHeight \in ContainerHeights :
              visibleRange =
                 IF useVirtualization(DocPageCount(d))
                 THEN updateVisibleRange(DocPageCount(d), 0, containerHeight)
                 ELSE InitialVisibleRange
        /\ thumbScrollTop = 0
        /\ ticking = FALSE

NextThumbList ==
    \/ \E y \in ThumbScrollTops, h \in ThumbItemHeights,
          containerHeight \in ContainerHeights :
          ThumbScroll(y, h, containerHeight)
    \/ \E h \in ThumbItemHeights, containerHeight \in ContainerHeights :
          ThumbScrollFrame(h, containerHeight)
    \/ \E col \in ThumbListDocs : LoadDocument(col)
    \/ \E c \in 1..MaxLoads : DestroyResolved(c)
    \/ \E c \in 1..MaxLoads : LoadFromUrlResolved(c)
    \/ \E c \in 1..MaxLoads : FirstViewportResolved(c)

SpecThumbList == InitThumbList /\ [][NextThumbList]_vars

PageNumbers == {-3, 1, ThumbDocPages + 1, LargeDocPages, 100}
PageDocs == {"thumbs", "image"}
\* loadDocument calls, the one that loaded the first document included
MaxPageLoads == 4

NextPages ==
    \/ \E page \in PageNumbers : GoToPage(page)
    \/ PreviousPage
    \/ NextPage
    \/ AnimationFrame
    \/ SettleTimer
    \/ \E p \in NearPages : TrackPageVisible(p, TRUE, 100)
    \/ PageChangeDebounce
    \/ \E col \in PageDocs : LoadDocumentUpTo(col, MaxPageLoads)
    \/ \E c \in 1..MaxPageLoads : DestroyResolved(c)
    \/ \E c \in 1..MaxPageLoads : LoadFromUrlResolved(c)
    \/ \E c \in 1..MaxPageLoads : LoadFromUrlRejected(c, {})
    \/ \E c \in 1..MaxPageLoads : FirstViewportResolved(c)

SpecPages == InitNav /\ [][NextPages]_vars

\* C32: while a document is shown the current page is one of its pages,
\* 1 <= currentPage <= totalPages, whatever page number goToPage was given
\* and whatever visibility tracking and document loads, superseded ones
\* included, have set
C32_CurrentPageInRange ==
    viewerState = "viewing" => 1 <= currentPage /\ currentPage <= totalPages

(***************************************************************************)
(* Rotation, with zooming to fit and navigation in the large document      *)
(***************************************************************************)
FitModes == {"page-width", "page-fit", "auto"}
ClientWidths == {0, 700, 1300}
ClientHeights == {500, 900}

NextRotate ==
    \/ RotateLeft
    \/ RotateRight
    \/ \E mode \in FitModes, clientWidth \in ClientWidths,
          clientHeight \in ClientHeights :
          SetZoomFit(mode, clientWidth, clientHeight)
    \/ \E page \in JumpTargets : GoToPage(page)
    \/ AnimationFrame
    \/ SettleTimer

SpecRotate == InitNav /\ [][NextRotate]_vars

\* C33: the rotation is one of 0, 90, 180 and 270, and at 90 and 270 the
\* page width and height that the fit-scale calculation, the page layout
\* and the spacer heights use are the height and the width of the unrotated
\* viewport, at 0 and 180 its width and its height
C33_RotationSwapsPageSize ==
    LET swapped == currentRotation \in {90, 270}
        Width(vp) == IF swapped THEN vp.height ELSE vp.width
        Height(vp) == IF swapped THEN vp.width ELSE vp.height
        RowHeight(n) == Height(pageViewports[n]) * currentScale + 20 * 100
        window == virtualWindow
    IN /\ currentRotation \in {0, 90, 180, 270}
       /\ CanvasMounted =>
            /\ FitPage = [pageWidth |-> Width(pageViewports[1]),
                          pageHeight |-> Height(pageViewports[1])]
            /\ \A n \in MaterializedPages :
                  PageLayout(n) =
                     [width |-> Width(pageViewports[n]) * currentScale,
                      height |-> Height(pageViewports[n]) * currentScale]
            /\ \A n \in 1..Len(pageViewports) : pageHeights[n] = RowHeight(n)
            /\ window.useVirtual =>
                  /\ spacerHeights.topSpacerHeight =
                        SumOver([n \in 1..Len(pageViewports) |-> RowHeight(n)],
                                1..(window.startPage - 1))
                  /\ spacerHeights.bottomSpacerHeight =
                        SumOver([n \in 1..Len(pageViewports) |-> RowHeight(n)],
                                (window.endPage + 1)..Len(pageViewports))

\* the view rotated to 270 degrees and fitted, in the middle of the large
\* document
C33_RotatedLeftAndFitted ==
    /\ CanvasMounted
    /\ currentRotation = 270
    /\ currentScale = calculateScale("page-fit", 1300, 900)
    /\ currentScale # DEFAULT_SCALE
    /\ virtualWindow.startPage > 1
    /\ virtualWindow.endPage < Len(pageViewports)
    /\ pendingScrollRef = NoPage

(***************************************************************************)
(* PdfService (services/PdfService.ts) as its callers see it.  An entry of *)
(* serviceCalls is one call of a method: its arguments, where it is        *)
(* suspended, the document it read this.document to be, and the error it   *)
(* rejected with.  A document is named by its content, and a page by the   *)
(* document it belongs to.  The page cache is kept by these actions; the   *)
(* viewer's own actions above stand for the viewer's state only.           *)
(***************************************************************************)
MaxServiceCalls == 4

\* an ArrayBuffer is the sequence of its bytes, a byte its character
PdfHeader == <<"%", "P", "D", "F">>
Buffers == {<<>>,
            <<"%", "P", "D">>,
            <<"P", "D", "F", "%", "-", "s">>,
            <<"%", "P", "D", "F", "-", "s">>,
            <<"%", "P", "D", "F", "-", "x">>}
\* what pdfjsLib.getDocument makes of the data: the document, or Null for
\* data it rejects
BufferDocument(arrayBuffer) ==
    IF arrayBuffer[Len(arrayBuffer)] = "s" THEN "small" ELSE Null
\* what it makes of a URL
Urls == {"small", "pair", "missing"}
UrlDocument(url) == IF url = "missing" THEN Null ELSE url

\* arrayBuffer.slice(0, 5) and String.prototype.startsWith
slice(arrayBuffer, begin, end) ==
    SubSeq(arrayBuffer, begin + 1, Min(end, Len(arrayBuffer)))
startsWith(str, searchString) ==
    /\ Len(str) >= Len(searchString)
    /\ SubSeq(str, 1, Len(searchString)) = searchString

\* an error message is the sequence of the strings it is made of
NoError == <<>>
LoadingFailed(message) == <<"PDF loading failed: ">> \o message

\* the checks of loadFromArrayBuffer that throw (122-132), as the catch
\* block rethrows them (152-157); NoError when they pass
ValidateBuffer_NoContext(arrayBuffer) ==
    IF Len(arrayBuffer) = 0 THEN <<"File is empty">>
    ELSE IF ~startsWith(slice(arrayBuffer, 0, 5), PdfHeader)
    THEN <<"Invalid PDF file format">>
    ELSE NoError

ValidateBuffer(arrayBuffer) ==
    IF Len(arrayBuffer) = 0 THEN LoadingFailed(<<"File is empty">>)
    ELSE IF ~startsWith(slice(arrayBuffer, 0, 5), PdfHeader)
    THEN LoadingFailed(<<"Invalid PDF file format">>)
    ELSE NoError

NewCall(op, arg, pc, error) ==
    [op |-> op, arg |-> arg, pc |-> pc, doc |-> pdfDocument,
     error |-> error]
IsLoad(call) == call.op \in {"loadFromUrl", "loadFromArrayBuffer"}
Awaiting == {i \in DOMAIN serviceCalls : serviceCalls[i].pc = "await"}
\* the document a load call asks for
LoadTarget(call) ==
    IF call.op = "loadFromUrl" THEN UrlDocument(call.arg)
    ELSE BufferDocument(call.arg)

\* loadFromUrl(url) up to its await (75-98)
ServiceLoadFromUrl(url) ==
    /\ Len(serviceCalls) < MaxServiceCalls
    /\ serviceCalls' = Append(serviceCalls,
                              NewCall("loadFromUrl", url, "await", NoError))
    /\ UNCHANGED <<pdfDocument, pageCache, canvasVars>>

\* loadFromArrayBuffer(arrayBuffer) up to its await or its throw (116-149)
ServiceLoadFromArrayBuffer(arrayBuffer) ==
    /\ Len(serviceCalls) < MaxServiceCalls
    /\ LET error == ValidateBuffer(arrayBuffer)
       IN serviceCalls' =
             Append(serviceCalls,
                    NewCall("loadFromArrayBuffer", arrayBuffer,
                            IF error = NoError THEN "await" ELSE "rejected",
                            error))
    /\ UNCHANGED <<pdfDocument, pageCache, canvasVars>>

\* the loading task of call i settled: this.document is assigned (98, 149),
\* or the call rejects, loadFromArrayBuffer with the rethrown error (152-157)
ServiceLoadSettled(i) ==
    /\ i \in Awaiting
    /\ IsLoad(serviceCalls[i])
    /\ LET call == serviceCalls[i]
           document == LoadTarget(call)
       IN IF document # Null
          THEN /\ pdfDocument' = document
               /\ serviceCalls' = [serviceCalls EXCEPT ![i].pc = "resolved"]
          ELSE /\ UNCHANGED pdfDocument
               /\ serviceCalls' =
                     [serviceCalls EXCEPT
                        ![i].pc = "rejected",
                        ![i].error =
                           IF call.op = "loadFromArrayBuffer"
                           THEN LoadingFailed(<<"Invalid PDF structure">>)
                           ELSE <<"Missing PDF">>]
    /\ UNCHANGED pageCache

\* destroy() up to its await or its return (371-376)
ServiceDestroy ==
    /\ Len(serviceCalls) < MaxServiceCalls
    /\ pageCache' = EmptyMap
    /\ serviceCalls' =
          Append(serviceCalls,
                 NewCall("destroy", Null,
                         IF pdfDocument # Null THEN "await" ELSE "resolved",
                         NoError))
    /\ UNCHANGED pdfDocument

\* the teardown of the document ended (376-377); the operations in flight
\* on the document have settled by then
ServiceDestroyResolved(i) ==
    /\ i \in Awaiting
    /\ serviceCalls[i].op = "destroy"
    /\ \A j \in Awaiting : /\ serviceCalls[j].op = "getPage"
                           => serviceCalls[j].doc # serviceCalls[i].doc
    /\ pdfDocument' = Null
    /\ serviceCalls' = [serviceCalls EXCEPT ![i].pc = "resolved"]
    /\ UNCHANGED pageCache

\* getPage(pageNumber) up to its await, return or throw (177-192); a call
\* that returns a cached page holds the document of that page
ServiceGetPage(pageNumber) ==
    /\ Len(serviceCalls) < MaxServiceCalls
    /\ serviceCalls' =
          Append(serviceCalls,
             IF pdfDocument = Null
             THEN NewCall("getPage", pageNumber, "rejected",
                          <<"No document loaded">>)
             ELSE IF pageNumber < 1 \/ pageNumber > DocPageCount(pdfDocument)
             THEN NewCall("getPage", pageNumber, "rejected",
                          <<"Invalid page number: ", pageNumber>>)
             ELSE IF Has(pageCache, pageNumber)
             THEN [NewCall("getPage", pageNumber, "resolved", NoError)
                     EXCEPT !.doc = pageCache[pageNumber]]
             ELSE NewCall("getPage", pageNumber, "await", NoError))
    /\ UNCHANGED <<pdfDocument, pageCache, canvasVars>>

\* document.getPage of call i settled (192-194).  The library rejects a
\* page request that ends after destroy() was called on its document, or
\* for a page the document does not have.
ServiceGetPageSettled(i) ==
    /\ i \in Awaiting
    /\ serviceCalls[i].op = "getPage"
    /\ LET call == serviceCalls[i]
           destroyed == \E j \in DOMAIN serviceCalls :
                           /\ j > i
                           /\ serviceCalls[j].op = "destroy"
                           /\ serviceCalls[j].doc = call.doc
       IN IF destroyed
          THEN /\ serviceCalls' =
                     [serviceCalls EXCEPT ![i].pc = "rejected",
                                          ![i].error = <<"Transport destroyed">>]
               /\ UNCHANGED pageCache
          ELSE /\ serviceCalls' = [serviceCalls EXCEPT ![i].pc = "resolved"]
               /\ pageCache' = MapSet(pageCache, call.arg, call.doc)
    /\ UNCHANGED pdfDocument

ViewerUnchanged ==
    UNCHANGED <<renderVars, visVars, docVars, viewVars, navVars, loadIdRef,
                loads, searchVars, errorMessage, hostVars, thumbVars,
                thumbListVars, canvasVars>>

InitService == Loaded("pair")

NextService ==
    \/ \E url \in Urls : ServiceLoadFromUrl(url) /\ ViewerUnchanged
    \/ \E arrayBuffer \in Buffers :
          ServiceLoadFromArrayBuffer(arrayBuffer) /\ ViewerUnchanged
    \/ \E i \in 1..MaxServiceCalls : ServiceLoadSettled(i) /\ ViewerUnchanged
    \/ ServiceDestroy /\ ViewerUnchanged
    \/ \E i \in 1..MaxServiceCalls :
          ServiceDestroyResolved(i) /\ ViewerUnchanged
    \/ \E pageNumber \in 0..(TextDocPages + 1) :
          ServiceGetPage(pageNumber) /\ ViewerUnchanged
    \/ \E i \in 1..MaxServiceCalls :
          ServiceGetPageSettled(i) /\ ViewerUnchanged

SpecService == InitService /\ [][NextService]_vars

\* C34: loadFromArrayBuffer rejects an empty buffer and a buffer that does
\* not start with '%PDF' with an error that starts with 'PDF loading
\* failed:', and a load that fails leaves the service's document as it was
C34_BufferLoadFailure ==
    [][\A i \in DOMAIN serviceCalls' :
          LET call == serviceCalls'[i]
              settled == \/ i \notin DOMAIN serviceCalls
                         \/ serviceCalls[i].pc # call.pc
          IN /\ (/\ i \notin DOMAIN serviceCalls
                 /\ call.op = "loadFromArrayBuffer"
                 /\ \/ call.arg = <<>>
                    \/ Len(call.arg) < 4
                    \/ SubSeq(call.arg, 1, 4) # <<"%", "P", "D", "F">>)
                => /\ call.pc = "rejected"
                   /\ call.error # NoError
                   /\ Head(call.error) = "PDF loading failed: "
             /\ (IsLoad(call) /\ settled /\ call.pc = "rejected")
                => pdfDocument' = pdfDocument]_vars

\* a buffer without the header was rejected while a document was loaded
C34_BadHeaderRejected ==
    /\ pdfDocument = "small"
    /\ \E i \in DOMAIN serviceCalls :
          /\ serviceCalls[i].op = "loadFromArrayBuffer"
          /\ serviceCalls[i].arg = <<"P", "D", "F", "%", "-", "s">>
          /\ serviceCalls[i].pc = "rejected"
          /\ serviceCalls[i].doc = "small"

\* C37: once the load and destroy calls on the service have settled, the
\* service's document is that of the load requested last, or none if
\* destroy was called after it: a load requested earlier that resolves
\* later does not replace it
C37_LatestLoadIsCurrent ==
    LET requests == {i \in DOMAIN serviceCalls :
                        \/ IsLoad(serviceCalls[i])
                        \/ serviceCalls[i].op = "destroy"}
        last == CHOOSE i \in requests : \A j \in requests : j <= i
    IN (/\ requests # {}
        /\ \A i \in requests : serviceCalls[i].pc # "await")
       => CASE serviceCalls[last].op = "destroy" -> pdfDocument = Null
            [] serviceCalls[last].pc = "resolved" ->
                  pdfDocument = LoadTarget(serviceCalls[last])
            [] OTHER -> TRUE

\* C38: every page in the page cache belongs to the service's document, so
\* getPage never returns a page of a previous document, whether or not
\* destroy was called before the next load and also while a page fetch of
\* the previous document is resolving
C38_CacheOfCurrentDocument ==
    \A n \in DOMAIN pageCache : pageCache[n] = pdfDocument

(***************************************************************************)
(* Canvases of pages that leave and re-enter the virtual window            *)
(* (1684-1698, 1836-1848, 1883-1915)                                       *)
(***************************************************************************)
\* the first and the last page: neither is in the other's window
CanvasPages == {1, LargeDocPages}

NextCanvas ==
    \/ \E p \in CanvasPages : HandlePageVisible(p, TRUE, 100)
    \/ \E s \in Slots : RenderTaskStarted(s)
    \/ \E s \in Slots : RenderTaskCompleted(s)
    \/ \E s \in Slots : TextContentResolved(s)
    \/ \E t \in CanvasPages : GoToPage(t)
    \/ AnimationFrame
    \/ SettleTimer

SpecCanvas == InitNav /\ [][NextCanvas]_vars

\* C35: a materialized page whose render state is 'done' shows its raster on
\* the canvas it currently owns; a page that left the virtual window and is
\* materialized again is rendered again before it counts as rendered.
C35_DonePageShowsRaster ==
    \A p \in MaterializedPages :
        (Has(renderedPages, p) /\ renderedPages[p] = "done")
            => p \in canvasRaster

(***************************************************************************)
(* Progress of loadDocument (240-351).  Every promise the call awaits      *)
(* settles: the teardown, the fetch and the first viewport each resolve or *)
(* reject, and the browser runs the animation frame it was asked for.      *)
(***************************************************************************)
NextProgress ==
    \/ \E col \in {"small", "image"} : LoadDocument(col)
    \/ \E c \in 1..MaxLoads : DestroyResolved(c)
    \/ \E c \in 1..MaxLoads : DestroyRejected(c)
    \/ \E c \in 1..MaxLoads : LoadFromUrlResolved(c)
    \/ \E c \in 1..MaxLoads, e \in LoadErrors : LoadFromUrlRejected(c, e)
    \/ \E c \in 1..MaxLoads : FirstViewportResolved(c)
    \/ \E c \in 1..MaxLoads, e \in LoadErrors : FirstViewportRejected(c, e)
    \/ \E c \in 1..MaxLoads : ViewportsFrame(c)
    \/ \E c \in 1..MaxLoads : AllViewportsResolved(c)
    \/ \E c \in 1..MaxLoads : MetadataResolved(c)
    \/ \E c \in 1..MaxLoads : OutlineResolved(c)

PromisesSettle ==
    \A c \in 1..MaxLoads :
        /\ WF_vars(DestroyResolved(c) \/ DestroyRejected(c))
        /\ WF_vars(LoadFromUrlResolved(c)
                     \/ \E e \in LoadErrors : LoadFromUrlRejected(c, e))
        /\ WF_vars(FirstViewportResolved(c)
                     \/ \E e \in LoadErrors : FirstViewportRejected(c, e))
        /\ WF_vars(ViewportsFrame(c))
        /\ WF_vars(AllViewportsResolved(c))

SpecProgress == InitFail /\ [][NextProgress]_vars /\ PromisesSettle

\* C36: a loadDocument call that no later call supersedes eventually leaves
\* the 'loading' state for 'viewing' or 'error', whatever the outcome of the
\* teardown, the fetch and the retrieval of the first viewport.
C36_LoadLeavesLoading ==
    \A c \in 1..MaxLoads :
        (loadIdRef = c /\ viewerState = "loading")
            ~> (loadIdRef # c \/ viewerState \in {"viewing", "error"})

(***************************************************************************)
(* The match list and the extracted text (SpecFind)                        *)
(***************************************************************************)
\* C39: every match refers to a page and a fragment of the extracted text:
\* after a zoom, a rotation or a document load has cleared the extracted
\* text, no match is left for a page without extracted text.
C39_MatchesInExtractedText ==
    \A i \in DOMAIN searchMatches :
        LET m == searchMatches[i] IN
        \E k \in DOMAIN textContent :
            /\ textContent[k].pageNum = m.pageNum
            /\ m.itemIndex + 1 \in DOMAIN textContent[k].content

(***************************************************************************)
(* The search highlights of the text layer (1809-1834, 1917-1951), as      *)
(* PdfCanvas renders them from its props (SpecSearch)                      *)
(***************************************************************************)
\* getPageMatches (1820-1822) over matchesByPage (1809-1817)
getPageMatches(pageNum) ==
    SelectSeq(searchMatches, LAMBDA m : m.pageNum = pageNum)

\* isCurrentMatch (1831-1834) over currentMatch (1825-1828)
isCurrentMatch(pageNum, itemIndex) ==
    /\ ~(currentMatchIndex < 0 \/ currentMatchIndex >= Len(searchMatches))
    /\ LET currentMatch == searchMatches[currentMatchIndex + 1]
       IN currentMatch.pageNum = pageNum /\ currentMatch.itemIndex = itemIndex

\* the highlight spans of page pageNum, whose text content is entry k of
\* textContent (1920-1949)
PageHighlights(pageNum, k) ==
    UNION {LET matchesInItem ==
                   SelectSeq(getPageMatches(pageNum),
                             LAMBDA m : m.itemIndex = itemIndex)
           IN {[pageNum |-> pageNum, itemIndex |-> itemIndex,
                matchIdx |-> matchIdx - 1, match |-> matchesInItem[matchIdx],
                isCurrent |-> isCurrentMatch(pageNum, itemIndex)]
                  : matchIdx \in DOMAIN matchesInItem}
             : itemIndex \in 0..(Len(textContent[k].content) - 1)}

\* the highlight spans in the DOM: those of the materialized pages that are
\* 'done' and have text content, while there is a search text (1918)
Highlights ==
    UNION {PageHighlights(textContent[k].pageNum, k)
             : k \in {j \in DOMAIN textContent :
                         /\ textContent[j].pageNum \in MaterializedPages
                         /\ Has(renderedPages, textContent[j].pageNum)
                         /\ renderedPages[textContent[j].pageNum] = "done"
                         /\ searchText # <<>>}}

\* C40: at most one highlight is marked as the current match, the highlight
\* of the match at the current match index, also when several matches lie
\* in one text fragment.
C40_OneCurrentHighlight ==
    /\ Cardinality({h \in Highlights : h.isCurrent}) <= 1
    /\ \A h \in Highlights :
          h.isCurrent => h.match = searchMatches[currentMatchIndex + 1]

====
